---- MODULE Spec2Model ----
(***************************************************************************)
(* Solrise: the submission ledger, the derived-state computation and the   *)
(* fetch coordination of AppContextProvider (src/context/AppContext.tsx).  *)
(*                                                                         *)
(* Times are milliseconds since the epoch, as in the Date objects of the   *)
(* source; creationTimeSeconds of a submission is in seconds.  A calendar  *)
(* date string "YYYY-MM-DD" is represented by the number of its day since  *)
(* the epoch: the representation is order preserving, so the string sort   *)
(* of the source is the numeric sort here.  A problem key "4-A" is the     *)
(* pair <<4, "A">>.                                                        *)
(***************************************************************************)
EXTENDS Integers, Sequences, FiniteSets, TLC

VARIABLES
    rawSubmissionsRef,          \* the Ledger (useRef, line 116)
    userSolvedSet,              \* DerivedState.solvedSet
    attemptedUnsolvedProblems,  \* DerivedState.attemptedUnsolved (array of AttemptInfo)
    solvingStreak,              \* DerivedState.streak
    dailySolveCounts,           \* DerivedState.dailyCounts (date -> count)
    now,                        \* the wall clock, in ms (Date.now())
    tz,                         \* the offset of local time from UTC, in ms
    ledger0,                    \* pure-function runs: the Ledger the run started from
    newSubs,                    \* the batch of the incremental response (line 350)
    applied,                    \* pure-function runs: number of applications so far
    handle,                     \* useState handle (line 99)
    userInfo,                   \* useState userInfo (line 102)
    loadingUser,                \* useState loadingUser (line 111)
    hasFetchedForHandleRef,     \* useRef (line 117)
    storedHandle,               \* localStorage["cf_user_handle_v1"]
    problems,                   \* useState problems (line 94): the catalog
    loadingProblems,            \* useState loadingProblems (line 96)
    errorProblems,              \* useState errorProblems (line 97)
    hasFetchedProblemsRef,      \* useRef (line 114)
    fetchProblemsPromiseRef,    \* useRef (line 113): "null", "pending" or "settled"
    cache,                      \* localStorage["cf_all_problems"] and its "_ts" entry
    load,                       \* the catalog load in progress: its position and attempt
    sh,                         \* the calls of setHandleAndFetch, by caller
    ru,                         \* the call of refreshUserSubmissions: its position
    rc,                         \* the call of refreshContestUserSubmissions: its position
    mounted,                    \* whether the mount effect (line 479) has run
    fm,                         \* the direct call of fetchAndMergeUserData
    store,                      \* SafeStorage: the contents of localStorage, key -> value
    lastSet,                    \* SafeStorage: the last call of setItem, what the
                                \* store did on its write, and the result
    requests,                   \* RateLimiter.requests: identifier -> timestamps
    lastCleanup,                \* RateLimiter.lastCleanup
    serverNow,                  \* Date.now() on the server
    microtasks,                 \* the microtask queue: checks past their await, cleanups
    granted,                    \* history: identifier -> the timestamps of the checks
                                \* that returned true
    lastCheck,                  \* the last check that returned, and its result
    routeCall,                  \* the request an API route is handling, or has handled
    cachedData,                 \* api/problems/route.ts: the in-memory cache (line 8)
    cachedContest               \* api/upcoming-contest/route.ts: the cache (line 7)

pureVars == <<ledger0, applied>>
clockVars == <<now, tz>>
userVars == <<handle, userInfo, loadingUser, hasFetchedForHandleRef, storedHandle>>
catalogVars == <<problems, loadingProblems, errorProblems, hasFetchedProblemsRef,
                 fetchProblemsPromiseRef, cache, load>>
callVars == <<sh, ru, rc, mounted, fm>>
storageVars == <<store, lastSet>>
limiterVars == <<requests, lastCleanup, serverNow, microtasks, granted, lastCheck>>
routeVars == <<routeCall, cachedData, cachedContest>>
utilVars == <<storageVars, limiterVars, routeVars>>

vars == <<rawSubmissionsRef, userSolvedSet, attemptedUnsolvedProblems, solvingStreak,
          dailySolveCounts, now, tz, ledger0, newSubs, applied, handle, userInfo,
          loadingUser, hasFetchedForHandleRef, storedHandle, problems, loadingProblems,
          errorProblems, hasFetchedProblemsRef, fetchProblemsPromiseRef, cache, load,
          sh, ru, rc, mounted, fm, store, lastSet, requests, lastCleanup, serverNow,
          microtasks, granted, lastCheck, routeCall, cachedData, cachedContest>>

\* the state of the provider and of the pure-function runs
appVars == <<rawSubmissionsRef, userSolvedSet, attemptedUnsolvedProblems, solvingStreak,
             dailySolveCounts, now, tz, ledger0, newSubs, applied, handle, userInfo,
             loadingUser, hasFetchedForHandleRef, storedHandle, problems, loadingProblems,
             errorProblems, hasFetchedProblemsRef, fetchProblemsPromiseRef, cache, load,
             sh, ru, rc, mounted, fm>>

(***************************************************************************)
(* SafeStorage (src/components/RatingSelector.tsx, lines 539-656).         *)
(*                                                                         *)
(* A key is the sequence of its characters.  A value is a string of which  *)
(* the model keeps a name, the number of its one-byte and of its           *)
(* three-byte characters in UTF-8, and the timestamp that JSON.parse finds *)
(* in it (0: not JSON, or no timestamp).  localStorage is a function from  *)
(* the keys it holds to their values.                                      *)
(***************************************************************************)
DefaultMaxSizeBytes == 500000
TotalLimitBytes == 5000000
CleanupThresholdBytes == 3000000
MaxKeyLength == 100

StorageValue(name, ascii, wide, timestamp) ==
    [name |-> name, ascii |-> ascii, wide |-> wide, timestamp |-> timestamp]

\* value.length, in UTF-16 code units
StringLength(value) == value.ascii + value.wide
\* new Blob([value]).size: the number of bytes of the UTF-8 encoding
BlobSize(value) == value.ascii + 3 * value.wide

EmptyStore == [k \in {} |-> StorageValue("", 0, 0, 0)]
NoSetItem == [key |-> <<>>, value |-> StorageValue("", 0, 0, 0), maxSizeBytes |-> 0,
              failure |-> "none", returned |-> FALSE, threw |-> FALSE]

\* SafeStorage as loaded: nothing stored through it, nothing called
StorageLoaded ==
    /\ store = EmptyStore
    /\ lastSet = NoSetItem

\* !key || key.length > 100 (lines 546 and 583)
KeyRejected(key) == Len(key) = 0 \/ Len(key) > MaxKeyLength

\* localStorage.removeItem(key)
RemoveItem(st, key) == [k \in DOMAIN st \ {key} |-> st[k]]
\* localStorage.setItem(key, value)
PutItem(st, key, value) == [k \in DOMAIN st \cup {key} |-> IF k = key THEN value ELSE st[k]]

RECURSIVE SumBytes(_, _)
SumBytes(st, keys) ==
    IF keys = {} THEN 0
    ELSE LET k == CHOOSE x \in keys : TRUE
         IN  Len(k) + BlobSize(st[k]) + SumBytes(st, keys \ {k})

\* getTotalSize (lines 593-607): the bytes of every key and value
getTotalSize(st) == SumBytes(st, DOMAIN st)

\* the comparator of cleanup (lines 638-643): negative when a sorts before b
CleanupCompare(st, a, b) ==
    IF st[a].timestamp # 0 /\ st[b].timestamp # 0
    THEN st[a].timestamp - st[b].timestamp
    ELSE BlobSize(st[b]) - BlobSize(st[a])

\* items.sort(...) (line 638): a stable insertion of each item into the
\* sorted prefix, as Array.prototype.sort does for short arrays
RECURSIVE InsertItem(_, _, _)
InsertItem(st, sorted, k) ==
    IF sorted = <<>> THEN <<k>>
    ELSE IF CleanupCompare(st, k, sorted[Len(sorted)]) < 0
         THEN InsertItem(st, SubSeq(sorted, 1, Len(sorted) - 1), k)
                  \o <<sorted[Len(sorted)]>>
         ELSE sorted \o <<k>>

RECURSIVE SortItems(_, _)
SortItems(st, items) ==
    IF items = <<>> THEN <<>>
    ELSE InsertItem(st, SortItems(st, SubSeq(items, 1, Len(items) - 1)),
                    items[Len(items)])

\* the removal loop of cleanup (lines 646-651); item.size is the size of the
\* value as collected before the loop
RECURSIVE RemoveUntilBelow(_, _, _, _, _)
RemoveUntilBelow(st0, st, items, i, currentSize) ==
    IF i > Len(items) \/ currentSize < CleanupThresholdBytes THEN st
    ELSE RemoveUntilBelow(st0, RemoveItem(st, items[i]), items, i + 1,
                          currentSize - BlobSize(st0[items[i]]))

\* the keys of the store as localStorage.key(i) enumerates them (lines 618-619),
\* the order of enumeration being the browser's
EnumerateKeys(st, order) == SelectSeq(order, LAMBDA k : k \in DOMAIN st)

\* cleanup (lines 612-655)
cleanup(st, order) ==
    RemoveUntilBelow(st, st, SortItems(st, EnumerateKeys(st, order)), 1, getTotalSize(st))

\* the errors localStorage.setItem can raise (line 563)
StorageFailures == {"none", "QuotaExceededError", "SecurityError"}

\* the body of the try block of setItem (lines 545-564): the store it leaves
\* and how it ends, by a return or by the error raised
setItemTry(st, key, value, maxSizeBytes, failure, order) ==
    IF KeyRejected(key) THEN [store |-> st, ends |-> "false"]
    ELSE IF BlobSize(value) > maxSizeBytes THEN [store |-> st, ends |-> "false"]
    ELSE LET cleaned == IF getTotalSize(st) + BlobSize(value) > TotalLimitBytes
                        THEN cleanup(st, order)
                        ELSE st
         IN  IF failure = "none"
             THEN [store |-> PutItem(cleaned, key, value), ends |-> "true"]
             ELSE [store |-> cleaned, ends |-> failure]

\* setItem without the size test of lines 549-553
setItemNoSizeTest(st, key, value, maxSizeBytes, failure, order) ==
    LET try == setItemTry(st, key, value, BlobSize(value), failure, order)
    IN  IF try.ends = "true" THEN [store |-> try.store, returned |-> TRUE, threw |-> FALSE]
        ELSE IF try.ends = "QuotaExceededError"
        THEN [store |-> cleanup(try.store, order), returned |-> FALSE, threw |-> FALSE]
        ELSE [store |-> try.store, returned |-> FALSE, threw |-> FALSE]

\* setItem (lines 543-576): the try block, and the catch block of lines
\* 565-575, which cleans up after a quota error and returns false after any
setItem(st, key, value, maxSizeBytes, failure, order) ==
    LET try == setItemTry(st, key, value, maxSizeBytes, failure, order)
    IN  IF try.ends = "true" THEN [store |-> try.store, returned |-> TRUE, threw |-> FALSE]
        ELSE IF try.ends = "QuotaExceededError"
        THEN [store |-> cleanup(try.store, order), returned |-> FALSE, threw |-> FALSE]
        ELSE [store |-> try.store, returned |-> FALSE, threw |-> FALSE]

NoValue == StorageValue("null", 0, 0, 0)

\* getItem (lines 581-588)
getItem(st, key) ==
    IF KeyRejected(key) THEN NoValue
    ELSE IF key \in DOMAIN st THEN st[key] ELSE NoValue

\* the keys, values and ceilings the callers pass
KeyA == <<"c", "f", "_", "a">>
KeyB == <<"c", "f", "_", "b">>
EmptyKey == <<>>
LongKey == [i \in 1..(MaxKeyLength + 1) |-> "k"]
StorageKeys == {KeyA, KeyB, EmptyKey, LongKey}
StorageKeyOrders == {<<KeyA, KeyB>>, <<KeyB, KeyA>>}

SmallValue == StorageValue("small", 10, 0, 0)
AtCeiling == StorageValue("atCeiling", DefaultMaxSizeBytes, 0, 0)
OverCeiling == StorageValue("overCeiling", DefaultMaxSizeBytes + 1, 0, 0)
WideValue == StorageValue("wide", 0, 200000, 0)
OldBig == StorageValue("oldBig", 2900000, 0, 1)
NewBig == StorageValue("newBig", 2400000, 0, 2)
StorageValues == {SmallValue, AtCeiling, OverCeiling, WideValue, OldBig, NewBig}
LargeMaxSizeBytes == 6 * DefaultMaxSizeBytes
MaxSizeInputs == {DefaultMaxSizeBytes, LargeMaxSizeBytes}

\* a call of SafeStorage.setItem
SetItem(key, value, maxSizeBytes, failure, order) ==
    /\ LET r == setItem(store, key, value, maxSizeBytes, failure, order)
       IN  /\ store' = r.store
           /\ lastSet' = [key |-> key, value |-> value, maxSizeBytes |-> maxSizeBytes,
                          failure |-> failure, returned |-> r.returned,
                          threw |-> r.threw]
    /\ UNCHANGED <<appVars, limiterVars, routeVars>>

(***************************************************************************)
(* RateLimiter (src/components/RatingSelector.tsx, lines 236-368).         *)
(*                                                                         *)
(* check() reads the clock, awaits acquireLock and then runs its body      *)
(* without another await.  Nothing ever puts a promise into the locks map  *)
(* (releaseLock deletes, nothing sets), so acquireLock never waits for     *)
(* another call: the await only moves the rest of check() to the microtask *)
(* queue, which runs in the order of the calls.  The cleanup that          *)
(* scheduleCleanup passes to Promise.resolve().then is a microtask of the  *)
(* same queue.  An identifier is a piece of text or the numbers of a       *)
(* dotted address.                                                         *)
(***************************************************************************)
maxRequests == 2
windowMs == 3
\* cleanupIntervalMs (line 242) is the window of apiRateLimiter (line 371)
cleanupIntervalMs == windowMs
MaxClock == 4
MaxPending == 2

Identifier(text, parts) == [text |-> text, parts |-> parts]
Ip1 == Identifier("", <<10, 0, 0, 1>>)
UnknownIp == Identifier("unknown", <<>>)
BadIp == Identifier("", <<999, 1, 1, 1>>)
NoText == Identifier("", <<>>)
Identifiers == {Ip1, UnknownIp, BadIp}

\* isValidIdentifier (lines 295-315) on the identifiers of the model
isValidIdentifier(identifier) ==
    \/ identifier.text = "unknown" /\ identifier.parts = <<>>
    \/ /\ identifier.text = ""
       /\ Len(identifier.parts) = 4
       /\ \A i \in 1..4 : identifier.parts[i] >= 0 /\ identifier.parts[i] <= 255

ValidIdentifiers == {identifier \in Identifiers : isValidIdentifier(identifier)}

NoRequests == [identifier \in {} |-> <<>>]
NoneGranted == [identifier \in ValidIdentifiers |-> <<>>]
NoCheck == [identifier |-> NoText, returned |-> FALSE]

\* new RateLimiter(maxRequests, windowMs) (lines 237-247)
LimiterConstructed ==
    /\ requests = NoRequests
    /\ serverNow = 0
    /\ lastCleanup = 0
    /\ microtasks = <<>>
    /\ granted = NoneGranted
    /\ lastCheck = NoCheck

\* no request has reached a route yet, the in-memory caches of
\* api/problems (line 8) and api/upcoming-contest (line 7) are null
NoRouteCall == [route |-> "none", ip |-> NoText, handle |-> <<>>, contestId |-> <<>>,
                pc |-> "idle", consulted |-> FALSE, overLimit |-> FALSE,
                status |-> 0, cfRequests |-> 0]
RoutesLoaded ==
    /\ routeCall = NoRouteCall
    /\ cachedData = "null"
    /\ cachedContest = "null"

\* the utilities and the routes as loaded
UtilitiesLoaded ==
    /\ StorageLoaded
    /\ LimiterConstructed
    /\ RoutesLoaded

\* this.requests.get(identifier) || [] (line 264)
RequestsOf(identifier) ==
    IF identifier \in DOMAIN requests THEN requests[identifier] ELSE <<>>

\* lines 267-269
RecentRequests(times, nowMs) == SelectSeq(times, LAMBDA time : nowMs - time < windowMs)

\* a limit that lets one more request through
LimitReachedLate(recentRequests) == Len(recentRequests) > maxRequests

\* line 272
LimitReached(recentRequests) == Len(recentRequests) >= maxRequests

\* Date.now() advances
Tick ==
    /\ serverNow < MaxClock
    /\ serverNow' = serverNow + 1
    /\ UNCHANGED <<requests, lastCleanup, microtasks, granted, lastCheck>>
    /\ UNCHANGED <<appVars, storageVars, routeVars>>

\* check(identifier) up to its await (lines 253-261)
check(identifier) ==
    /\ IF ~isValidIdentifier(identifier)
       THEN /\ lastCheck' = [identifier |-> identifier, returned |-> FALSE]
            /\ UNCHANGED microtasks
       ELSE /\ Len(microtasks) < MaxPending
            /\ microtasks' = Append(microtasks, [kind |-> "check", identifier |-> identifier,
                                                 now |-> serverNow])
            /\ UNCHANGED lastCheck
    /\ UNCHANGED <<requests, lastCleanup, serverNow, granted>>

\* a call of check() from anywhere
CallCheck(identifier) ==
    /\ check(identifier)
    /\ UNCHANGED <<appVars, storageVars, routeVars>>

\* the rest of check() (lines 263-289), run from the microtask queue
ResumeCheck ==
    /\ microtasks # <<>>
    /\ Head(microtasks).kind = "check"
    /\ LET identifier == Head(microtasks).identifier
           nowMs == Head(microtasks).now
           recentRequests == RecentRequests(RequestsOf(identifier), nowMs)
       IN  IF LimitReached(recentRequests)
           THEN /\ lastCheck' = [identifier |-> identifier, returned |-> FALSE]
                /\ microtasks' = Tail(microtasks)
                /\ UNCHANGED <<requests, lastCleanup, granted>>
           ELSE /\ requests' = [k \in DOMAIN requests \cup {identifier} |->
                                   IF k = identifier THEN Append(recentRequests, nowMs)
                                   ELSE requests[k]]
                /\ granted' = [granted EXCEPT ![identifier] = Append(@, nowMs)]
                /\ lastCheck' = [identifier |-> identifier, returned |-> TRUE]
                /\ IF nowMs - lastCleanup > cleanupIntervalMs
                   THEN /\ lastCleanup' = nowMs
                        /\ microtasks' = Append(Tail(microtasks),
                                                [kind |-> "cleanup",
                                                 identifier |-> NoText, now |-> nowMs])
                   ELSE /\ microtasks' = Tail(microtasks)
                        /\ UNCHANGED lastCleanup
    /\ UNCHANGED serverNow
    /\ UNCHANGED <<appVars, storageVars, routeVars>>

\* the entries the cleanup keeps (line 346)
KeptByCleanup(times, cutoff) == SelectSeq(times, LAMBDA time : time >= cutoff)

\* the callback of scheduleCleanup (lines 338-354); the model has fewer
\* identifiers than maxCleanupIterations
RunCleanup ==
    /\ microtasks # <<>>
    /\ Head(microtasks).kind = "cleanup"
    /\ LET cutoff == Head(microtasks).now - windowMs
           kept == {k \in DOMAIN requests : Len(KeptByCleanup(requests[k], cutoff)) > 0}
       IN  requests' = [k \in kept |-> KeptByCleanup(requests[k], cutoff)]
    /\ microtasks' = Tail(microtasks)
    /\ UNCHANGED <<lastCleanup, serverNow, granted, lastCheck>>
    /\ UNCHANGED <<appVars, storageVars, routeVars>>

(***************************************************************************)
(* Bounds of the model.                                                    *)
(***************************************************************************)
MaxId == 2          \* submission ids are 1..MaxId
MaxBatch == 2       \* a service response lists at most MaxBatch submissions
MaxLedger == 3      \* longest Ledger handed to the derived-state computation
MaxResponse == 2    \* a response to the provider lists at most MaxResponse submissions

(***************************************************************************)
(* Calendar arithmetic.                                                    *)
(***************************************************************************)
MsPerDay == 1000 * 60 * 60 * 24
MsPerHour == 1000 * 60 * 60

\* d.getFullYear()-d.getMonth()+1-d.getDate(): the LOCAL calendar date of an instant
LocalDateKey(ms) == (ms + tz) \div MsPerDay

\* new Date("YYYY-MM-DD"): a date-only string is parsed as midnight UTC of that date
ParseDateKey(key) == key * MsPerDay

\* date.setHours(0, 0, 0, 0): midnight, local time, of the local day of the instant
SetHoursZero(ms) == LocalDateKey(ms) * MsPerDay - tz

(***************************************************************************)
(* Keys.                                                                   *)
(***************************************************************************)
normalizeIndex(idx) ==
    CASE idx = "a"  -> "A"
      [] idx = " A" -> "A"
      [] idx = "b"  -> "B"
      [] OTHER      -> idx

makeKey(contestId, index) == <<contestId, normalizeIndex(index)>>

(***************************************************************************)
(* Submissions as the Activity Service reports them.                       *)
(***************************************************************************)
Submission(id, contestId, index, verdict, seconds) ==
    [id |-> id, problem |-> [contestId |-> contestId, index |-> index],
     verdict |-> verdict, creationTimeSeconds |-> seconds]

Ids(subs) == {subs[i].id : i \in DOMAIN subs}

SeqsUpTo(S, n) == UNION {[1..k -> S] : k \in 0..n}

(***************************************************************************)
(* The incremental merge of refreshUserSubmissions and                     *)
(* refreshContestUserSubmissions (the two bodies are the same).            *)
(***************************************************************************)
\* a filter that lets every record of the batch through
UniqueNewNoFilter(current, batch) == batch

\* lines 351-359
UniqueNew(current, batch) ==
    LET existingIds == {current[i].id : i \in DOMAIN current}
    IN  SelectSeq(batch, LAMBDA s : s.id \notin existingIds)

\* a merge that lets a batch record replace the Ledger record of the same id
MergeReplace(current, batch) ==
    LET batchIds == {batch[i].id : i \in DOMAIN batch}
    IN  batch \o SelectSeq(current, LAMBDA s : s.id \notin batchIds)

\* a merge that puts the new records after the Ledger
MergeAppend(current, batch) == current \o UniqueNew(current, batch)

\* lines 361-363: the new records first, then the Ledger as it was
MergeSubmissions(current, batch) ==
    IF Len(UniqueNew(current, batch)) > 0
    THEN UniqueNew(current, batch) \o current
    ELSE current

(***************************************************************************)
(* processSubmissions: the derived-state computation over a whole Ledger.  *)
(***************************************************************************)
\* the position of the entry of `key` in the attempted map, 0 when there is none
AttemptedIndex(attempted, key) ==
    IF \E i \in DOMAIN attempted : attempted[i].key = key
    THEN CHOOSE i \in DOMAIN attempted : attempted[i].key = key
    ELSE 0

SubmissionKey(s) == makeKey(s.problem.contestId, normalizeIndex(s.problem.index))

NewAttemptInfo(s) ==
    [key |-> SubmissionKey(s),
     contestId |-> s.problem.contestId,
     index |-> normalizeIndex(s.problem.index),
     attempts |-> 0,
     lastVerdict |-> s.verdict,
     lastTime |-> s.creationTimeSeconds]

\* an attempted map whose entry follows the record processed last
RecordAttemptLast(attempted, s) ==
    LET i == AttemptedIndex(attempted, SubmissionKey(s))
    IN  IF i = 0
        THEN Append(attempted, [NewAttemptInfo(s) EXCEPT !.attempts = 1])
        ELSE [attempted EXCEPT ![i].attempts = @ + 1,
                               ![i].lastVerdict = s.verdict,
                               ![i].lastTime = s.creationTimeSeconds]

\* an attempted map that does not count the later records of a key
RecordAttemptNoCount(attempted, s) ==
    LET i == AttemptedIndex(attempted, SubmissionKey(s))
    IN  IF i = 0
        THEN Append(attempted, [NewAttemptInfo(s) EXCEPT !.attempts = 1])
        ELSE attempted

\* lines 244-260: the entry is created by the first record of its key, later
\* records of the key only count
RecordAttempt(attempted, s) ==
    LET i == AttemptedIndex(attempted, SubmissionKey(s))
    IN  IF i = 0
        THEN Append(attempted, [NewAttemptInfo(s) EXCEPT !.attempts = 1])
        ELSE [attempted EXCEPT ![i].attempts = @ + 1]

\* a day count keyed by the UTC date of the submission
CountSolveUTC(dailyCounts, s) ==
    LET date == (s.creationTimeSeconds * 1000) \div MsPerDay
    IN  IF s.verdict # "OK" THEN dailyCounts
        ELSE IF date \in DOMAIN dailyCounts
             THEN [dailyCounts EXCEPT ![date] = @ + 1]
             ELSE dailyCounts @@ (date :> 1)

\* lines 237-242
CountSolve(dailyCounts, s) ==
    LET date == LocalDateKey(s.creationTimeSeconds * 1000)
    IN  IF s.verdict # "OK" THEN dailyCounts
        ELSE IF date \in DOMAIN dailyCounts
             THEN [dailyCounts EXCEPT ![date] = @ + 1]
             ELSE dailyCounts @@ (date :> 1)

EmptyCounts == [d \in {} |-> 0]

EmptyFold == [solved |-> {}, attempted |-> <<>>, dailyCounts |-> EmptyCounts]

\* one iteration of the loop of lines 230-261
FoldStep(acc, s) ==
    [solved |-> IF s.verdict = "OK" THEN acc.solved \cup {SubmissionKey(s)}
                ELSE acc.solved,
     attempted |-> RecordAttempt(acc.attempted, s),
     dailyCounts |-> CountSolve(acc.dailyCounts, s)]

RECURSIVE FoldSubmissions(_, _, _)
FoldSubmissions(subs, i, acc) ==
    IF i > Len(subs) THEN acc
    ELSE FoldSubmissions(subs, i + 1, FoldStep(acc, subs[i]))

\* an attempted list that keeps the solved keys
AttemptedUnfiltered(attempted, solved) == attempted

\* lines 263-265
AttemptedUnsolved(attempted, solved) ==
    SelectSeq(attempted, LAMBDA a : a.key \notin solved)

\* Object.keys(dailyCounts).filter(> 0).sort().reverse()
RECURSIVE SortDescending(_)
SortDescending(S) ==
    IF S = {} THEN <<>>
    ELSE LET m == CHOOSE x \in S : \A y \in S : y <= x
         IN  <<m>> \o SortDescending(S \ {m})

SortedDates(dailyCounts) ==
    SortDescending({d \in DOMAIN dailyCounts : dailyCounts[d] > 0})

\* the loop of lines 279-292; currentDate and solveDate are instants in ms
RECURSIVE StreakWalk(_, _, _, _)
StreakWalk(sortedDates, i, currentDate, streak) ==
    IF i > Len(sortedDates) THEN streak
    ELSE LET solveDate == SetHoursZero(ParseDateKey(sortedDates[i]))
             diffTime == currentDate - solveDate
             diffDays == diffTime \div MsPerDay
         IN  IF diffDays = 0 \/ diffDays = 1
             THEN StreakWalk(sortedDates, i + 1, solveDate, streak + 1)
             ELSE streak

\* lines 267-293
ComputeStreak(dailyCounts, nowMs) ==
    LET sortedDates == SortedDates(dailyCounts)
        today == SetHoursZero(nowMs)
    IN  IF Len(sortedDates) > 0 THEN StreakWalk(sortedDates, 1, today, 0) ELSE 0

\* the four values processSubmissions hands to the state setters
DerivedOf(subs, nowMs) ==
    LET f == FoldSubmissions(subs, 1, EmptyFold)
    IN  [solved |-> f.solved,
         attemptedUnsolved |-> AttemptedUnsolved(f.attempted, f.solved),
         dailyCounts |-> f.dailyCounts,
         streak |-> ComputeStreak(f.dailyCounts, nowMs)]

\* processSubmissions(subs) as an action on the exposed state (lines 294-297)
processSubmissions(subs) ==
    LET d == DerivedOf(subs, now)
    IN  /\ solvingStreak' = d.streak
        /\ dailySolveCounts' = d.dailyCounts
        /\ userSolvedSet' = d.solved
        /\ attemptedUnsolvedProblems' = d.attemptedUnsolved

derived == <<userSolvedSet, attemptedUnsolvedProblems, solvingStreak, dailySolveCounts>>

\* a merge that stores and recomputes even when nothing is new
MergeBatchAlways(batch) ==
    /\ rawSubmissionsRef' = MergeSubmissions(rawSubmissionsRef, batch)
    /\ processSubmissions(MergeSubmissions(rawSubmissionsRef, batch))

\* lines 349-366 (and 392-406): merge the batch, recompute when something is new
MergeBatch(batch) ==
    IF Len(UniqueNew(rawSubmissionsRef, batch)) > 0
    THEN /\ rawSubmissionsRef' = MergeSubmissions(rawSubmissionsRef, batch)
         /\ processSubmissions(MergeSubmissions(rawSubmissionsRef, batch))
    ELSE UNCHANGED <<rawSubmissionsRef, derived>>

(***************************************************************************)
(* The inputs: what the Activity Service may report, the clock, the zone.  *)
(***************************************************************************)
Verdicts == {"OK", "WRONG_ANSWER"}
RawIndices == {"a", "A", "B"}
ContestIds == {4}

NowInit == 5 * MsPerDay + 12 * MsPerHour
TimeZones == {-5 * MsPerHour, (11 * MsPerHour) \div 2}

\* creation times, in seconds: now, 13 hours ago (23:00 UTC of the day before:
\* yesterday west of UTC, today east of it), three days ago
CreationTimes ==
    {NowInit \div 1000, (NowInit - 13 * MsPerHour) \div 1000,
     (NowInit - 3 * MsPerDay) \div 1000}

\* the records of the derived-state runs
Shapes == ContestIds \X RawIndices \X Verdicts \X CreationTimes
NumberedLedger(shapes) ==
    [i \in DOMAIN shapes |->
        Submission(i, shapes[i][1], shapes[i][2], shapes[i][3], shapes[i][4])]

\* the records of the merge runs and of the service responses
ServiceRecords ==
    {Submission(id, 4, IF id % 2 = 1 THEN "a" ELSE "B", v, NowInit \div 1000) :
        id \in 1..MaxId, v \in Verdicts}
Batches == SeqsUpTo(ServiceRecords, MaxBatch)

\* the records of the service responses of the provider runs: a failed attempt
\* at 4-A, an accepted one at 4-B, and a second report of id 2 as accepted at 4-A
ResponseRecords ==
    {Submission(1, 4, "a", "WRONG_ANSWER", NowInit \div 1000),
     Submission(2, 4, "B", "OK", NowInit \div 1000),
     Submission(2, 4, "A", "OK", NowInit \div 1000)}
ResponseBatches == SeqsUpTo(ResponseRecords, MaxResponse)

Null == "null"
NoHandle == <<>>                 \* null where a handle string is expected
NoUserInfo == [handle |-> <<>>]  \* null where a CFUserInfo is expected
Callers == {"ui", "effect"}
IdleCall == [pc |-> "idle", h |-> NoHandle]
NoEntry == [kind |-> "absent", items |-> <<>>, ts |-> 0]
\* no load has run yet; of the load that is executing, or of the last one that
\* did: its position, the loop variable attempt (line 163), the requests it has
\* issued to /api/problems, and the number of loads executing
IdleLoad == [pc |-> "idle", attempt |-> 0, requests |-> 0, loads |-> 0]

\* the provider as constructed (lines 94-117), nothing called yet
ProviderConstructed ==
    /\ handle = NoHandle
    /\ userInfo = NoUserInfo
    /\ loadingUser = FALSE
    /\ hasFetchedForHandleRef = NoHandle
    /\ problems = <<>>
    /\ loadingProblems = FALSE
    /\ errorProblems = Null
    /\ hasFetchedProblemsRef = FALSE
    /\ fetchProblemsPromiseRef = Null
    /\ load = IdleLoad
    /\ sh = [c \in Callers |-> IdleCall]
    /\ ru = "idle"
    /\ rc = "idle"
    /\ mounted = FALSE
    /\ fm = IdleCall

DerivedEmpty ==
    /\ userSolvedSet = {}
    /\ attemptedUnsolvedProblems = <<>>
    /\ solvingStreak = 0
    /\ dailySolveCounts = EmptyCounts

(***************************************************************************)
(* SpecProcess: processSubmissions applied to any Ledger.                  *)
(***************************************************************************)
InitProcess ==
    /\ rawSubmissionsRef \in {NumberedLedger(shp) : shp \in SeqsUpTo(Shapes, MaxLedger)}
    /\ DerivedEmpty
    /\ now = NowInit
    /\ tz \in TimeZones
    /\ ledger0 = rawSubmissionsRef
    /\ newSubs = <<>>
    /\ applied = 0
    /\ ProviderConstructed
    /\ UtilitiesLoaded
    /\ storedHandle = NoHandle
    /\ cache = NoEntry

ApplyProcess ==
    /\ applied = 0
    /\ applied' = 1
    /\ processSubmissions(rawSubmissionsRef)
    /\ UNCHANGED <<rawSubmissionsRef, now, tz, ledger0, newSubs>>
    /\ UNCHANGED <<userVars, catalogVars, callVars, utilVars>>

NextProcess == ApplyProcess

SpecProcess == InitProcess /\ [][NextProcess]_vars

(***************************************************************************)
(* SpecMerge: the incremental merge applied twice with the same batch.     *)
(***************************************************************************)
InitMerge ==
    /\ ledger0 \in Batches
    /\ rawSubmissionsRef = ledger0
    /\ DerivedEmpty
    /\ now = NowInit
    /\ tz = 0
    /\ newSubs \in Batches
    /\ applied = 0
    /\ ProviderConstructed
    /\ UtilitiesLoaded
    /\ storedHandle = NoHandle
    /\ cache = NoEntry

ApplyMerge ==
    /\ applied < 2
    /\ applied' = applied + 1
    /\ MergeBatch(newSubs)
    /\ UNCHANGED <<now, tz, ledger0, newSubs>>
    /\ UNCHANGED <<userVars, catalogVars, callVars, utilVars>>

NextMerge == ApplyMerge

SpecMerge == InitMerge /\ [][NextMerge]_vars

(***************************************************************************)
(* The provider: handles, the catalog load, the user fetches.              *)
(***************************************************************************)
HandleMinLen == 3
HandleMaxLen == 24
HandleChars == {"a", "b", "c", "e", "i", "l", "o", "A", "Z", "0", "9", "_", "-"}

\* String.prototype.normalize("NFKC") on the characters of the model
NFKC(h) == [i \in DOMAIN h |-> IF h[i] = "fullwidth-a" THEN "a" ELSE h[i]]

\* /^[a-zA-Z0-9_-]{3,24}$/.test(h.normalize("NFKC"))
HandleFormatOk(h) ==
    /\ Len(NFKC(h)) >= HandleMinLen
    /\ Len(NFKC(h)) <= HandleMaxLen
    /\ \A i \in DOMAIN h : NFKC(h)[i] \in HandleChars

Alice == <<"a", "l", "i", "c", "e">>
Bob == <<"b", "o", "b">>
TooShort == <<"a", "b">>
HandleInputs == {Alice, Bob, TooShort}

\* Number.isInteger(contestId) && contestId >= 1 && contestId <= 999999
ContestIdOk(contestId) == contestId >= 1 /\ contestId <= 999999
ContestIdInputs == {0, 4, 1000000}

\* the catalog
CatalogFull == <<[contestId |-> 4, index |-> "A"], [contestId |-> 4, index |-> "b"]>>

\* what /api/problems may answer: a failure, or a JSON body
CatalogResponses ==
    {[ok |-> FALSE, present |-> FALSE, isArray |-> FALSE, problems |-> <<>>],
     [ok |-> TRUE, present |-> FALSE, isArray |-> FALSE, problems |-> <<>>],
     [ok |-> TRUE, present |-> TRUE, isArray |-> FALSE, problems |-> <<>>],
     [ok |-> TRUE, present |-> TRUE, isArray |-> TRUE, problems |-> <<>>],
     [ok |-> TRUE, present |-> TRUE, isArray |-> TRUE, problems |-> CatalogFull]}

flattenProblemsResponse(data) ==
    IF ~data.present THEN <<>>
    ELSE IF data.isArray THEN data.problems
    ELSE <<>>

PROBLEMS_CACHE_TTL_MS == 6 * 60 * 60 * 1000
MAX_RETRIES == 3

CacheEntry(kind, items, ts) == [kind |-> kind, items |-> items, ts |-> ts]

\* the catalog cache a cold start may find
InitialCaches ==
    {NoEntry,
     CacheEntry("array", CatalogFull, NowInit - MsPerHour),
     CacheEntry("array", CatalogFull, NowInit - 7 * MsPerHour),
     CacheEntry("array", CatalogFull, NowInit - PROBLEMS_CACHE_TTL_MS),
     CacheEntry("unparseable", <<>>, NowInit - MsPerHour),
     CacheEntry("notArray", <<>>, NowInit - MsPerHour),
     CacheEntry("array", <<>>, NowInit - MsPerHour)}

\* a freshness test that still accepts an entry exactly as old as the TTL
isProblemsCacheFreshInclusive(c) ==
    c.kind # "absent" /\ now - c.ts <= PROBLEMS_CACHE_TTL_MS

\* lines 136-137
isProblemsCacheFresh(c) == c.kind # "absent" /\ now - c.ts < PROBLEMS_CACHE_TTL_MS

\* lines 139-147: the cached list is returned
CacheHit(c) == isProblemsCacheFresh(c) /\ c.kind = "array" /\ Len(c.items) > 0

\* lines 148-153: JSON.parse threw, both entries are removed
CacheCorrupt(c) == isProblemsCacheFresh(c) /\ c.kind = "unparseable"

Pending(call) == call.pc \in {"awaitProblems", "awaitUser"}

\* a fetchProblems() that does not look at the promise of the load in progress
fetchProblemsNoSingleFlight ==
    IF hasFetchedProblemsRef
    THEN UNCHANGED catalogVars
    ELSE IF CacheHit(cache)
    THEN /\ problems' = cache.items
         /\ loadingProblems' = FALSE
         /\ errorProblems' = Null
         /\ fetchProblemsPromiseRef' = "settled"
         /\ UNCHANGED <<hasFetchedProblemsRef, cache, load>>
    ELSE /\ loadingProblems' = TRUE
         /\ errorProblems' = Null
         /\ cache' = IF CacheCorrupt(cache) THEN NoEntry ELSE cache
         /\ load' = [pc |-> "fetching", attempt |-> 0, requests |-> 1,
                     loads |-> load.loads + 1]
         /\ fetchProblemsPromiseRef' = "pending"
         /\ UNCHANGED <<problems, hasFetchedProblemsRef>>

\* fetchProblems() up to its first suspension (lines 121-168 and 214-221); on
\* the path that never suspends the finally block clears the promise ref before
\* line 220 stores the promise in it
fetchProblems ==
    IF hasFetchedProblemsRef \/ fetchProblemsPromiseRef # Null
    THEN UNCHANGED catalogVars
    ELSE IF CacheHit(cache)
    THEN /\ problems' = cache.items
         /\ loadingProblems' = FALSE
         /\ errorProblems' = Null
         /\ fetchProblemsPromiseRef' = "settled"
         /\ UNCHANGED <<hasFetchedProblemsRef, cache, load>>
    ELSE /\ loadingProblems' = TRUE
         /\ errorProblems' = Null
         /\ cache' = IF CacheCorrupt(cache) THEN NoEntry ELSE cache
         /\ load' = [pc |-> "fetching", attempt |-> 0, requests |-> 1,
                     loads |-> load.loads + 1]
         /\ fetchProblemsPromiseRef' = "pending"
         /\ UNCHANGED <<problems, hasFetchedProblemsRef>>

\* whether the promise fetchProblems() returns is still pending when it returns
fetchProblemsPending ==
    /\ ~hasFetchedProblemsRef
    /\ \/ fetchProblemsPromiseRef = "pending"
       \/ fetchProblemsPromiseRef = Null /\ ~CacheHit(cache)

\* clearUser (lines 438-448); rawSubmissionsRef is not among what it resets
clearUser ==
    /\ handle' = NoHandle
    /\ userInfo' = NoUserInfo
    /\ userSolvedSet' = {}
    /\ attemptedUnsolvedProblems' = <<>>
    /\ solvingStreak' = 0
    /\ dailySolveCounts' = EmptyCounts
    /\ hasFetchedForHandleRef' = NoHandle
    /\ hasFetchedProblemsRef' = FALSE
    /\ storedHandle' = NoHandle
    /\ UNCHANGED rawSubmissionsRef

\* setHandleAndFetch(h) of caller c up to its first suspension (lines 418-430
\* and 300-306)
setHandleAndFetch(c, h) ==
    IF ~HandleFormatOk(h)
    THEN /\ sh' = [sh EXCEPT ![c] = [pc |-> "resolved", h |-> NoHandle]]
         /\ UNCHANGED <<rawSubmissionsRef, derived, userVars, catalogVars>>
    ELSE /\ handle' = h
         /\ hasFetchedForHandleRef' = h
         /\ storedHandle' = h
         /\ IF Len(problems) = 0
            THEN /\ fetchProblems
                 /\ IF fetchProblemsPending
                    THEN /\ sh' = [sh EXCEPT ![c] = [pc |-> "awaitProblems", h |-> h]]
                         /\ UNCHANGED loadingUser
                    ELSE /\ sh' = [sh EXCEPT ![c] = [pc |-> "awaitUser", h |-> h]]
                         /\ loadingUser' = TRUE
            ELSE /\ UNCHANGED catalogVars
                 /\ sh' = [sh EXCEPT ![c] = [pc |-> "awaitUser", h |-> h]]
                 /\ loadingUser' = TRUE
         /\ UNCHANGED <<rawSubmissionsRef, derived, userInfo>>

(***************************************************************************)
(* The actions.                                                            *)
(***************************************************************************)
\* the mount effect (lines 479-493)
MountEffect ==
    /\ ~mounted
    /\ mounted' = TRUE
    /\ IF Len(problems) = 0 THEN fetchProblems ELSE UNCHANGED catalogVars
    /\ handle' = IF storedHandle # NoHandle /\ handle = NoHandle /\ HandleFormatOk(storedHandle)
                 THEN storedHandle ELSE handle
    /\ UNCHANGED <<rawSubmissionsRef, derived, clockVars, pureVars, utilVars, newSubs, userInfo,
                   loadingUser, hasFetchedForHandleRef, storedHandle, sh, ru, rc, fm>>

\* the effect on [handle, problems] (lines 495-503)
HandleEffect ==
    /\ mounted
    /\ handle # NoHandle
    /\ hasFetchedForHandleRef # handle
    /\ Len(problems) > 0
    /\ ~Pending(sh["effect"])
    /\ setHandleAndFetch("effect", handle)
    /\ UNCHANGED <<clockVars, pureVars, utilVars, newSubs, ru, rc, mounted, fm>>

\* the effect of PersonalInfo, which is rendered while userInfo is set
\* (components/PersonalInfo.tsx, lines 49-51; app/page.tsx, lines 45-52)
PersonalInfoEffect ==
    /\ mounted
    /\ userInfo # NoUserInfo
    /\ fetchProblems
    /\ UNCHANGED <<rawSubmissionsRef, derived, clockVars, pureVars, utilVars, newSubs, userVars,
                   callVars>>

\* the UI submits a handle (NavbarWrapper, onHandleSubmit)
CallSetHandleAndFetch(h) ==
    /\ mounted
    /\ ~Pending(sh["ui"])
    /\ setHandleAndFetch("ui", h)
    /\ UNCHANGED <<clockVars, pureVars, utilVars, newSubs, ru, rc, mounted, fm>>

\* the callers of setHandleAndFetch that wait for the catalog load go on to
\* fetchAndMergeUserData when the load settles (line 430, then 301-306)
WakeCallers ==
    /\ sh' = [c \in Callers |->
                IF sh[c].pc = "awaitProblems" THEN [sh[c] EXCEPT !.pc = "awaitUser"]
                ELSE sh[c]]
    /\ loadingUser' = IF \E c \in Callers : sh[c].pc = "awaitProblems"
                      THEN TRUE ELSE loadingUser

\* a retry loop that goes round once more than the loop of line 163
RetryAllowedOnceMore(attempt) == attempt < MAX_RETRIES

\* line 163: after a failed attempt the loop goes on while attempt + 1 < MAX_RETRIES
RetryAllowed(attempt) == attempt + 1 < MAX_RETRIES

\* the end of a load that failed (lines 209-217)
LoadFailed ==
    /\ errorProblems' = "Failed to fetch problems"
    /\ loadingProblems' = FALSE
    /\ fetchProblemsPromiseRef' = Null
    /\ load' = [load EXCEPT !.pc = "idle", !.loads = 0]
    /\ UNCHANGED <<problems, hasFetchedProblemsRef, cache>>

\* the end of a load that got a body (lines 183-208, 214-217); the write of the
\* cache entries may be refused by the store (quota), which is ignored
LoadSucceeded(data, stored) ==
    /\ problems' = flattenProblemsResponse(data)
    /\ hasFetchedProblemsRef' = TRUE
    /\ cache' = IF stored THEN CacheEntry("array", flattenProblemsResponse(data), now)
                ELSE cache
    /\ loadingProblems' = FALSE
    /\ fetchProblemsPromiseRef' = Null
    /\ load' = [load EXCEPT !.pc = "idle", !.loads = 0]
    /\ UNCHANGED errorProblems

\* a response of /api/problems arrives (lines 168-181)
LoadResponse(resp, stored) ==
    /\ load.pc = "fetching"
    /\ IF resp.ok
       THEN IF resp.present
            THEN LoadSucceeded(resp, stored) /\ WakeCallers
            ELSE LoadFailed /\ WakeCallers
       ELSE IF RetryAllowed(load.attempt)
            THEN /\ load' = [load EXCEPT !.pc = "backoff", !.attempt = @ + 1]
                 /\ UNCHANGED <<problems, loadingProblems, errorProblems,
                                hasFetchedProblemsRef, fetchProblemsPromiseRef, cache,
                                sh, loadingUser>>
            ELSE LoadFailed /\ WakeCallers
    /\ UNCHANGED <<rawSubmissionsRef, derived, clockVars, pureVars, utilVars, newSubs, handle,
                   userInfo, hasFetchedForHandleRef, storedHandle, ru, rc, mounted, fm>>

\* the backoff timer of the retry loop fires and the next request goes out
\* (lines 165-168)
BackoffElapsed ==
    /\ load.pc = "backoff"
    /\ load' = [load EXCEPT !.pc = "fetching", !.requests = @ + 1]
    /\ UNCHANGED <<rawSubmissionsRef, derived, clockVars, pureVars, utilVars, newSubs, userVars,
                   problems, loadingProblems, errorProblems, hasFetchedProblemsRef,
                   fetchProblemsPromiseRef, cache, callVars>>

\* what /api/user-dashboard may answer
UserFailures ==
    {[ok |-> FALSE, found |-> FALSE, submissions |-> <<>>],
     [ok |-> TRUE, found |-> FALSE, submissions |-> <<>>]}
UserResponses ==
    UserFailures \cup {[ok |-> TRUE, found |-> TRUE, submissions |-> b] : b \in ResponseBatches}
UserResponsesNoSubmissions ==
    UserFailures \cup {[ok |-> TRUE, found |-> TRUE, submissions |-> <<>>]}

\* a full fetch that drops its result when the handle is no longer the one
\* it was issued for
UserResponseChecked(c, resp) ==
    /\ sh[c].pc = "awaitUser"
    /\ IF resp.ok /\ resp.found /\ handle = sh[c].h
       THEN /\ userInfo' = [handle |-> sh[c].h]
            /\ rawSubmissionsRef' = resp.submissions
            /\ processSubmissions(resp.submissions)
            /\ sh' = [sh EXCEPT ![c] = [pc |-> "resolved", h |-> NoHandle]]
            /\ UNCHANGED <<handle, hasFetchedForHandleRef, storedHandle,
                           hasFetchedProblemsRef>>
       ELSE IF resp.ok /\ resp.found
       THEN /\ sh' = [sh EXCEPT ![c] = [pc |-> "resolved", h |-> NoHandle]]
            /\ UNCHANGED <<rawSubmissionsRef, derived, userInfo, handle,
                           hasFetchedForHandleRef, storedHandle, hasFetchedProblemsRef>>
       ELSE /\ clearUser
            /\ sh' = [sh EXCEPT ![c] = [pc |-> "rejected", h |-> NoHandle]]
    /\ loadingUser' = FALSE
    /\ UNCHANGED <<clockVars, pureVars, utilVars, newSubs, problems, loadingProblems,
                   errorProblems, fetchProblemsPromiseRef, cache, load, ru, rc, mounted, fm>>

\* the response of the full fetch arrives: the rest of fetchAndMergeUserData
\* (lines 308-333) and of setHandleAndFetch (lines 431-435)
UserResponse(c, resp) ==
    /\ sh[c].pc = "awaitUser"
    /\ IF resp.ok /\ resp.found
       THEN /\ userInfo' = [handle |-> sh[c].h]
            /\ rawSubmissionsRef' = resp.submissions
            /\ processSubmissions(resp.submissions)
            /\ sh' = [sh EXCEPT ![c] = [pc |-> "resolved", h |-> NoHandle]]
            /\ UNCHANGED <<handle, hasFetchedForHandleRef, storedHandle,
                           hasFetchedProblemsRef>>
       ELSE /\ clearUser
            /\ sh' = [sh EXCEPT ![c] = [pc |-> "rejected", h |-> NoHandle]]
    /\ loadingUser' = FALSE
    /\ UNCHANGED <<clockVars, pureVars, utilVars, newSubs, problems, loadingProblems,
                   errorProblems, fetchProblemsPromiseRef, cache, load, ru, rc, mounted, fm>>

\* the UI clears the user (NavbarWrapper, onHandleClear)
ClearUser ==
    /\ mounted
    /\ clearUser
    /\ UNCHANGED <<clockVars, pureVars, utilVars, newSubs, loadingUser, problems, loadingProblems,
                   errorProblems, fetchProblemsPromiseRef, cache, load, callVars>>

\* what /api/submissions may answer
SubmissionsResponses ==
    {[ok |-> FALSE, hasSubmissions |-> FALSE, submissions |-> <<>>],
     [ok |-> TRUE, hasSubmissions |-> FALSE, submissions |-> <<>>]}
    \cup {[ok |-> TRUE, hasSubmissions |-> TRUE, submissions |-> b] : b \in ResponseBatches}

\* refreshUserSubmissions(h) up to its fetch (lines 336-345)
CallRefreshUserSubmissions(h) ==
    /\ mounted
    /\ ru # "await"
    /\ ru' = IF Len(h) = 0 \/ ~HandleFormatOk(h) THEN "resolved" ELSE "await"
    /\ UNCHANGED <<rawSubmissionsRef, derived, clockVars, pureVars, utilVars, newSubs, userVars,
                   catalogVars, sh, rc, mounted, fm>>

\* the response of the incremental fetch arrives (lines 346-371)
RefreshResponse(resp) ==
    /\ ru = "await"
    /\ ru' = "resolved"
    /\ IF resp.ok /\ resp.hasSubmissions
       THEN MergeBatch(resp.submissions)
       ELSE UNCHANGED <<rawSubmissionsRef, derived>>
    /\ UNCHANGED <<clockVars, pureVars, utilVars, newSubs, userVars, catalogVars, sh, rc, mounted, fm>>

\* refreshContestUserSubmissions(contestId, h) up to its fetch (lines 374-388)
CallRefreshContestUserSubmissions(contestId, h) ==
    /\ mounted
    /\ rc # "await"
    /\ rc' = IF Len(h) = 0 \/ contestId = 0 \/ ~HandleFormatOk(h) \/ ~ContestIdOk(contestId)
             THEN "resolved" ELSE "await"
    /\ UNCHANGED <<rawSubmissionsRef, derived, clockVars, pureVars, utilVars, newSubs, userVars,
                   catalogVars, sh, ru, mounted, fm>>

\* the response of the contest-scoped fetch arrives (lines 389-415)
RefreshContestResponse(resp) ==
    /\ rc = "await"
    /\ IF resp.ok
       THEN /\ rc' = "resolved"
            /\ IF resp.hasSubmissions
               THEN MergeBatch(resp.submissions)
               ELSE UNCHANGED <<rawSubmissionsRef, derived>>
       ELSE /\ rc' = "rejected"
            /\ UNCHANGED <<rawSubmissionsRef, derived>>
    /\ UNCHANGED <<clockVars, pureVars, utilVars, newSubs, userVars, catalogVars, sh, ru, mounted, fm>>

\* a handle that ends with a line feed
AliceLF == <<"a", "l", "i", "c", "e", "LF">>

\* String.prototype.trim(): white space and line terminators are stripped from
\* both ends
WhiteSpace == {" ", "LF"}
RECURSIVE Trim(_)
Trim(h) ==
    IF Len(h) > 0 /\ h[1] \in WhiteSpace THEN Trim(Tail(h))
    ELSE IF Len(h) > 0 /\ h[Len(h)] \in WhiteSpace THEN Trim(SubSeq(h, 1, Len(h) - 1))
    ELSE h

\* the check of the handle by the route /api/user-dashboard
\* (api/user-dashboard/route.ts): the query parameter is trimmed, then tested
RouteHandleOk(h) == Len(Trim(h)) > 0 /\ HandleFormatOk(Trim(h))

\* what /api/user-dashboard answers to a request for handle h: 400 when the
\* route refuses the handle, else what the Activity Service makes of it
DashboardResponses(h) ==
    IF RouteHandleOk(h) THEN UserResponses
    ELSE {[ok |-> FALSE, found |-> FALSE, submissions |-> <<>>]}

(***************************************************************************)
(* The API routes: api/problems, api/submissions, api/contests,            *)
(* api/upcoming-contest and api/user-dashboard.  A handler is modelled     *)
(* from the arrival of the request to its first await, and from there to   *)
(* its response; the answer of Codeforces is an input of the second step.  *)
(* An in-memory cache is "null", "fresh" or "stale".                       *)
(***************************************************************************)
Routes == {"problems", "submissions", "contests", "upcoming-contest", "user-dashboard"}

\* the handlers that begin with apiRateLimiter.check(getClientIp(request)):
\* api/problems/route.ts lines 18-24, api/submissions/route.ts lines 11-17 and
\* api/contests (lines 9-15); api/upcoming-contest/route.ts and
\* api/user-dashboard import neither apiRateLimiter nor getClientIp
ConsultsLimiter(route) == route \in {"problems", "submissions", "contests"}

\* the addresses getClientIp hands to the limiter, the handle and contestId
\* parameters of a request; <<>> is a missing parameter
RouteIps == {Ip1}
RouteHandles(route) ==
    IF route \in {"submissions", "user-dashboard"} THEN {Alice, TooShort} ELSE {<<>>}
RouteContestIds(route) ==
    IF route = "submissions" THEN {<<>>, <<4>>, <<0>>} ELSE {<<>>}
CfOutcomes == {"ok", "error", "timeout"}

\* the limiter holds maxRequests timestamps of the window for the address
OverLimit(ip) == LimitReached(RecentRequests(RequestsOf(ip), serverNow))

\* the catch blocks of the routes: 504 on a timeout, else 500
FailureStatus(cf) == IF cf = "timeout" THEN 504 ELSE 500

\* a route with an in-memory cache after the limiter, if it has one: fresh
\* data is returned without a request; else one request is made, a good
\* answer refreshes the cache, a bad one is answered from the stale cache
\* when there is one (api/problems/route.ts lines 27-89,
\* api/upcoming-contest/route.ts lines 16-84)
CachedWork(cached, cf) ==
    IF cached = "fresh" THEN [status |-> 200, cfRequests |-> 0, cached |-> cached]
    ELSE IF cf = "ok" THEN [status |-> 200, cfRequests |-> 1, cached |-> "fresh"]
    ELSE IF cached = "stale" THEN [status |-> 200, cfRequests |-> 1, cached |-> cached]
    ELSE [status |-> FailureStatus(cf), cfRequests |-> 1, cached |-> cached]

\* api/submissions/route.ts lines 19-90
SubmissionsWork(h, contestId, cf) ==
    IF ~RouteHandleOk(h) THEN [status |-> 400, cfRequests |-> 0]
    ELSE IF contestId # <<>> /\ ~ContestIdOk(contestId[1])
    THEN [status |-> 400, cfRequests |-> 0]
    ELSE [status |-> IF cf = "ok" THEN 200 ELSE FailureStatus(cf), cfRequests |-> 1]

\* api/contests lines 17-64
ContestsWork(cf) ==
    [status |-> IF cf = "ok" THEN 200 ELSE FailureStatus(cf), cfRequests |-> 1]

\* api/user-dashboard lines 83-135: user.info and user.status in parallel
DashboardWork(h, cf) ==
    IF ~RouteHandleOk(h) THEN [status |-> 400, cfRequests |-> 0]
    ELSE [status |-> IF cf = "ok" THEN 200 ELSE FailureStatus(cf), cfRequests |-> 2]

\* a request arrives at a route: the handler up to its first await
RouteRequest(route, ip, h, contestId) ==
    /\ routeCall.pc \in {"idle", "done"}
    /\ routeCall' = [route |-> route, ip |-> ip, handle |-> h, contestId |-> contestId,
                     pc |-> IF ConsultsLimiter(route) THEN "check" ELSE "work",
                     consulted |-> ConsultsLimiter(route),
                     overLimit |-> OverLimit(ip),
                     status |-> 0, cfRequests |-> 0]
    /\ IF ConsultsLimiter(route) THEN check(ip) ELSE UNCHANGED limiterVars
    /\ UNCHANGED <<cachedData, cachedContest>>
    /\ UNCHANGED <<appVars, storageVars>>

\* the handler from its await to its response, Codeforces answering cf to
\* the requests it makes
RouteContinue(cf) ==
    /\ \/ routeCall.pc = "work"
       \/ /\ routeCall.pc = "check"
          /\ \A i \in DOMAIN microtasks : microtasks[i].kind # "check"
    /\ IF routeCall.pc = "check" /\ ~lastCheck.returned
       THEN /\ routeCall' = [routeCall EXCEPT !.pc = "done", !.status = 429]
            /\ UNCHANGED <<cachedData, cachedContest>>
       ELSE CASE routeCall.route = "problems" ->
                   LET w == CachedWork(cachedData, cf)
                   IN  /\ routeCall' = [routeCall EXCEPT !.pc = "done",
                                           !.status = w.status, !.cfRequests = w.cfRequests]
                       /\ cachedData' = w.cached
                       /\ UNCHANGED cachedContest
              [] routeCall.route = "upcoming-contest" ->
                   LET w == CachedWork(cachedContest, cf)
                   IN  /\ routeCall' = [routeCall EXCEPT !.pc = "done",
                                           !.status = w.status, !.cfRequests = w.cfRequests]
                       /\ cachedContest' = w.cached
                       /\ UNCHANGED cachedData
              [] OTHER ->
                   LET w == CASE routeCall.route = "submissions" ->
                                    SubmissionsWork(routeCall.handle, routeCall.contestId, cf)
                              [] routeCall.route = "contests" -> ContestsWork(cf)
                              [] OTHER -> DashboardWork(routeCall.handle, cf)
                   IN  /\ routeCall' = [routeCall EXCEPT !.pc = "done",
                                           !.status = w.status, !.cfRequests = w.cfRequests]
                       /\ UNCHANGED <<cachedData, cachedContest>>
    /\ UNCHANGED <<appVars, storageVars, limiterVars>>

\* the time to live of an in-memory cache runs out (CACHE_TTL_MS)
CacheExpires ==
    /\ cachedData = "fresh" \/ cachedContest = "fresh"
    /\ cachedData' = IF cachedData = "fresh" THEN "stale" ELSE cachedData
    /\ cachedContest' = IF cachedContest = "fresh" THEN "stale" ELSE cachedContest
    /\ UNCHANGED routeCall
    /\ UNCHANGED <<appVars, storageVars, limiterVars>>

\* fetchAndMergeUserData(h), called from the context value, up to its fetch
\* (lines 300-306): the handle is not checked
CallFetchAndMergeUserData(h) ==
    /\ mounted
    /\ fm.pc # "await"
    /\ fm' = [pc |-> "await", h |-> h]
    /\ loadingUser' = TRUE
    /\ UNCHANGED <<rawSubmissionsRef, derived, clockVars, pureVars, utilVars, newSubs, handle,
                   userInfo, hasFetchedForHandleRef, storedHandle, catalogVars,
                   sh, ru, rc, mounted>>

\* the response to the direct call arrives (lines 308-333)
FetchAndMergeResponse(resp) ==
    /\ fm.pc = "await"
    /\ resp \in DashboardResponses(fm.h)
    /\ IF resp.ok /\ resp.found
       THEN /\ userInfo' = [handle |-> Trim(fm.h)]
            /\ rawSubmissionsRef' = resp.submissions
            /\ processSubmissions(resp.submissions)
            /\ fm' = [pc |-> "resolved", h |-> fm.h]
       ELSE /\ fm' = [pc |-> "rejected", h |-> fm.h]
            /\ UNCHANGED <<userInfo, rawSubmissionsRef, derived>>
    /\ loadingUser' = FALSE
    /\ UNCHANGED <<clockVars, pureVars, utilVars, newSubs, handle, hasFetchedForHandleRef,
                   storedHandle, catalogVars, sh, ru, rc, mounted>>

(***************************************************************************)
(* The specifications of the provider.  Spec is the whole provider.        *)
(* SpecUser is the provider on a cold start that finds a fresh catalog in  *)
(* the cache and no persisted handle, so that no request to /api/problems  *)
(* is made and the handle effect has nothing to restore; SpecCatalog is    *)
(* the provider on any cold start with a user who has no submissions;      *)
(* SpecInput is SpecUser with the handles that fail the format check,      *)
(* with fetchAndMergeUserData called from the context value, and with      *)
(* services that answer with one record at most.                           *)
(***************************************************************************)
Init ==
    /\ ProviderConstructed
    /\ UtilitiesLoaded
    /\ rawSubmissionsRef = <<>>
    /\ DerivedEmpty
    /\ now = NowInit
    /\ tz = -5 * MsPerHour
    /\ storedHandle \in {NoHandle, Alice}
    /\ cache \in InitialCaches
    /\ ledger0 = <<>>
    /\ newSubs = <<>>
    /\ applied = 0

NextUser ==
    \/ MountEffect
    \/ \E h \in HandleInputs : CallSetHandleAndFetch(h)
    \/ \E c \in Callers, resp \in UserResponses : UserResponse(c, resp)
    \/ ClearUser
    \/ \E h \in HandleInputs : CallRefreshUserSubmissions(h)
    \/ \E resp \in SubmissionsResponses : RefreshResponse(resp)
    \/ \E contestId \in ContestIdInputs, h \in HandleInputs :
          CallRefreshContestUserSubmissions(contestId, h)
    \/ \E resp \in SubmissionsResponses : RefreshContestResponse(resp)

NextCatalog ==
    \/ MountEffect
    \/ HandleEffect
    \/ PersonalInfoEffect
    \/ \E h \in {Alice, TooShort} : CallSetHandleAndFetch(h)
    \/ \E resp \in CatalogResponses, stored \in BOOLEAN : LoadResponse(resp, stored)
    \/ BackoffElapsed
    \/ \E c \in Callers, resp \in UserResponsesNoSubmissions : UserResponse(c, resp)
    \/ ClearUser

\* the operations of the context value called with any handle, the services
\* answering with one record at most
AnyHandleInputs == {Alice, TooShort, AliceLF}
OneRecord == <<Submission(1, 4, "a", "WRONG_ANSWER", NowInit \div 1000)>>
InputUserResponses ==
    UserFailures \cup {[ok |-> TRUE, found |-> TRUE, submissions |-> OneRecord]}
InputSubmissionsResponses ==
    {[ok |-> FALSE, hasSubmissions |-> FALSE, submissions |-> <<>>],
     [ok |-> TRUE, hasSubmissions |-> TRUE, submissions |-> OneRecord]}

NextInput ==
    \/ MountEffect
    \/ \E h \in AnyHandleInputs : CallSetHandleAndFetch(h)
    \/ \E c \in Callers, resp \in InputUserResponses : UserResponse(c, resp)
    \/ ClearUser
    \/ \E h \in AnyHandleInputs : CallRefreshUserSubmissions(h)
    \/ \E resp \in InputSubmissionsResponses : RefreshResponse(resp)
    \/ \E contestId \in ContestIdInputs, h \in AnyHandleInputs :
          CallRefreshContestUserSubmissions(contestId, h)
    \/ \E resp \in InputSubmissionsResponses : RefreshContestResponse(resp)
    \/ \E h \in AnyHandleInputs : CallFetchAndMergeUserData(h)
    \/ \E resp \in InputUserResponses : FetchAndMergeResponse(resp)

Next == NextUser \/ NextCatalog \/ NextInput

Spec == Init /\ [][Next]_vars

InitUser ==
    /\ Init
    /\ storedHandle = NoHandle
    /\ cache = CacheEntry("array", CatalogFull, NowInit - MsPerHour)

SpecUser == InitUser /\ [][NextUser]_vars

SpecCatalog == Init /\ [][NextCatalog]_vars

SpecInput == InitUser /\ [][NextInput]_vars

(***************************************************************************)
(* SpecCounts: the catalog-intersected counts of lines 450-476 over any    *)
(* catalog and the derived state of any Ledger.                            *)
(***************************************************************************)
\* line 451
problemKeySet == {makeKey(problems[i].contestId, problems[i].index) : i \in DOMAIN problems}

\* lines 455-459
solvedCountInProblems == Cardinality({k \in problemKeySet : k \in userSolvedSet})

\* a count of every attempted entry, in the catalog or not
attemptedCountAnywhere == Len(attemptedUnsolvedProblems)

\* lines 461-466
attemptedCountInProblems ==
    Cardinality({i \in DOMAIN attemptedUnsolvedProblems :
                    attemptedUnsolvedProblems[i].key \in problemKeySet})

\* the argument of the clamp (line 472)
notTriedUnclamped ==
    Cardinality(problemKeySet) - solvedCountInProblems - attemptedCountInProblems

\* lines 468-475
notTriedCount == IF notTriedUnclamped > 0 THEN notTriedUnclamped ELSE 0

\* catalogs: none, the two problems of contest 4, a catalog that lacks 4-B
\* and has a problem of another contest, a catalog that lists 4-B twice
CountCatalogs ==
    {<<>>,
     <<[contestId |-> 4, index |-> "A"], [contestId |-> 4, index |-> "b"]>>,
     <<[contestId |-> 4, index |-> "A"], [contestId |-> 5, index |-> "A"]>>,
     <<[contestId |-> 4, index |-> "B"], [contestId |-> 4, index |-> "b"],
       [contestId |-> 4, index |-> "A"]>>}

\* the longest Ledger the counts are taken over
MaxCountLedger == 2

InitCounts ==
    /\ rawSubmissionsRef \in {NumberedLedger(shp) : shp \in SeqsUpTo(Shapes, MaxCountLedger)}
    /\ DerivedEmpty
    /\ now = NowInit
    /\ tz = 0
    /\ ledger0 = rawSubmissionsRef
    /\ newSubs = <<>>
    /\ applied = 0
    /\ handle = Alice
    /\ userInfo = [handle |-> Alice]
    /\ loadingUser = FALSE
    /\ hasFetchedForHandleRef = Alice
    /\ problems \in CountCatalogs
    /\ loadingProblems = FALSE
    /\ errorProblems = Null
    /\ hasFetchedProblemsRef = (problems # <<>>)
    /\ fetchProblemsPromiseRef = Null
    /\ load = IdleLoad
    /\ sh = [c \in Callers |-> IdleCall]
    /\ ru = "idle"
    /\ rc = "idle"
    /\ mounted = TRUE
    /\ fm = IdleCall
    /\ UtilitiesLoaded
    /\ storedHandle = Alice
    /\ cache = NoEntry

SpecCounts == InitCounts /\ [][NextProcess]_vars

(***************************************************************************)
(* SpecStorage: SafeStorage.setItem called with any key, value and ceiling *)
(* on the stores that earlier calls have left.                             *)
(***************************************************************************)
NextStorage ==
    \E key \in StorageKeys, value \in StorageValues, maxSizeBytes \in MaxSizeInputs,
       failure \in StorageFailures, order \in StorageKeyOrders :
        SetItem(key, value, maxSizeBytes, failure, order)

SpecStorage == InitUser /\ [][NextStorage]_vars

(***************************************************************************)
(* SpecLimiter: one RateLimiter, checks called at any time with any        *)
(* identifier, several of them between their await and their body.         *)
(***************************************************************************)
NextLimiter ==
    \/ Tick
    \/ \E identifier \in Identifiers : CallCheck(identifier)
    \/ ResumeCheck
    \/ RunCleanup

SpecLimiter == InitUser /\ [][NextLimiter]_vars

(***************************************************************************)
(* SpecRoutes: requests reach the five routes one after the other, each    *)
(* consulting the limiter or not as its handler does.                      *)
(***************************************************************************)
NextRoutes ==
    \/ Tick
    \/ \E route \in Routes, ip \in RouteIps :
          \E h \in RouteHandles(route), contestId \in RouteContestIds(route) :
              RouteRequest(route, ip, h, contestId)
    \/ ResumeCheck
    \/ RunCleanup
    \/ \E cf \in CfOutcomes : RouteContinue(cf)
    \/ CacheExpires

SpecRoutes == InitUser /\ [][NextRoutes]_vars

(***************************************************************************)
(* Claims on the incremental merge (SpecMerge).                            *)
(***************************************************************************)
IsSuffix(old, new) ==
    /\ Len(old) <= Len(new)
    /\ \A i \in DOMAIN old : new[Len(new) - Len(old) + i] = old[i]

\* C1: applying the incremental merge with the same batch a second time leaves
\* the Ledger exactly as the first application left it (same records, same
\* order, same length); a batch holding the single record of id 1, merged
\* twice into an empty Ledger, gives a Ledger of length 1.
C1_MergeIdempotent ==
    [][(applied = 1 /\ applied' = 2) =>
          /\ rawSubmissionsRef' = rawSubmissionsRef
          /\ (ledger0 = <<>> /\ Len(newSubs) = 1 /\ newSubs[1].id = 1)
                => Len(rawSubmissionsRef') = 1]_vars

C1_Witness ==
    /\ applied = 2
    /\ ledger0 = <<>>
    /\ Len(newSubs) = 1 /\ newSubs[1].id = 1
    /\ Len(rawSubmissionsRef) = 1

\* C3: after an incremental merge of batch B into Ledger L the ids of the
\* Ledger are ids(L) \cup ids(B), L is kept whole and in place (no record is
\* removed or replaced), and the records added are exactly the records of B
\* whose id was not in L.
C3_MergeUnion ==
    applied >= 1 =>
        LET added == SubSeq(rawSubmissionsRef, 1, Len(rawSubmissionsRef) - Len(ledger0))
        IN  /\ Ids(rawSubmissionsRef) = Ids(ledger0) \cup Ids(newSubs)
            /\ IsSuffix(ledger0, rawSubmissionsRef)
            /\ added = SelectSeq(newSubs, LAMBDA s : s.id \notin Ids(ledger0))

\* a merge into a Ledger that already holds one of the batch's ids with another
\* verdict, and lacks another of its ids
C3_Witness ==
    /\ applied = 1
    /\ \E i \in DOMAIN newSubs, j \in DOMAIN ledger0 :
          newSubs[i].id = ledger0[j].id /\ newSubs[i] # ledger0[j]
    /\ \E i \in DOMAIN newSubs : newSubs[i].id \notin Ids(ledger0)
    /\ Len(rawSubmissionsRef) = Len(ledger0) + 1

(***************************************************************************)
(* Claims on processSubmissions (SpecProcess).                             *)
(***************************************************************************)
KeyOf(s) == <<s.problem.contestId, normalizeIndex(s.problem.index)>>
DateOf(s) == LocalDateKey(s.creationTimeSeconds * 1000)
AttemptedKeys == {attemptedUnsolvedProblems[i].key : i \in DOMAIN attemptedUnsolvedProblems}
Positions(key) == {i \in DOMAIN rawSubmissionsRef : KeyOf(rawSubmissionsRef[i]) = key}
OkPositions == {i \in DOMAIN rawSubmissionsRef : rawSubmissionsRef[i].verdict = "OK"}

\* C5: after processSubmissions every OK record has its Key in solvedSet and a
\* dailyCounts entry of at least 1 at its local date; dailyCounts[d] is exactly
\* the number of OK records dated d, and there is no entry for a date without
\* an OK record.
C5_SolvedImpliesCounted ==
    applied = 1 =>
        /\ \A i \in OkPositions :
              /\ KeyOf(rawSubmissionsRef[i]) \in userSolvedSet
              /\ DateOf(rawSubmissionsRef[i]) \in DOMAIN dailySolveCounts
              /\ dailySolveCounts[DateOf(rawSubmissionsRef[i])] >= 1
        /\ DOMAIN dailySolveCounts = {DateOf(rawSubmissionsRef[i]) : i \in OkPositions}
        /\ \A d \in DOMAIN dailySolveCounts :
              dailySolveCounts[d] =
                  Cardinality({i \in OkPositions : DateOf(rawSubmissionsRef[i]) = d})

\* two OK records of one local date whose UTC dates differ, and a failed record
\* of another date
C5_Witness ==
    /\ applied = 1
    /\ \E d \in DOMAIN dailySolveCounts : dailySolveCounts[d] = 2
    /\ \E i, j \in OkPositions :
          /\ DateOf(rawSubmissionsRef[i]) = DateOf(rawSubmissionsRef[j])
          /\ (rawSubmissionsRef[i].creationTimeSeconds * 1000) \div MsPerDay
                # (rawSubmissionsRef[j].creationTimeSeconds * 1000) \div MsPerDay
    /\ \E i \in DOMAIN rawSubmissionsRef :
          /\ i \notin OkPositions
          /\ DateOf(rawSubmissionsRef[i]) \notin DOMAIN dailySolveCounts

\* the streak the claim describes: the length of the run of consecutive active
\* days that ends today, or yesterday when today is not active
Today == LocalDateKey(now)
ActiveDates == {d \in DOMAIN dailySolveCounts : dailySolveCounts[d] > 0}
RECURSIVE RunLength(_)
RunLength(d) == IF d \in ActiveDates THEN 1 + RunLength(d - 1) ELSE 0
RunStreak ==
    IF Today \in ActiveDates THEN RunLength(Today)
    ELSE IF Today - 1 \in ActiveDates THEN RunLength(Today - 1)
    ELSE 0

\* C6: the streak computed by processSubmissions is the number of active dates
\* in the unbroken run of consecutive days whose most recent day is today or
\* yesterday, and 0 when neither is active.
C6_StreakIsRun == applied = 1 => solvingStreak = RunStreak

\* C6, the two examples of the claim: {today, yesterday} gives 2 and
\* {today, 3 days ago} gives 1
C6_Examples ==
    applied = 1 =>
        /\ ActiveDates = {Today, Today - 1} => solvingStreak = 2
        /\ ActiveDates = {Today, Today - 3} => solvingStreak = 1

\* C6 where local time is not behind UTC
C6_StreakIsRunEast == (applied = 1 /\ tz >= 0) => solvingStreak = RunStreak

LastPosition(key) == CHOOSE i \in Positions(key) : \A j \in Positions(key) : j <= i
FirstPosition(key) == CHOOSE i \in Positions(key) : \A j \in Positions(key) : i <= j

\* C7 as stated: lastVerdict and lastTime of an attemptedUnsolved entry are those
\* of the record of its Key that the iteration over the Ledger processes last.
C7_LastProcessed ==
    applied = 1 =>
        \A n \in DOMAIN attemptedUnsolvedProblems :
            LET a == attemptedUnsolvedProblems[n]
                r == rawSubmissionsRef[LastPosition(a.key)]
            IN  a.lastVerdict = r.verdict /\ a.lastTime = r.creationTimeSeconds

\* C7 amended: lastVerdict and lastTime of an attemptedUnsolved entry are those
\* of the record of its Key that the iteration over the Ledger processes first.
C7_FirstProcessed ==
    applied = 1 =>
        \A n \in DOMAIN attemptedUnsolvedProblems :
            LET a == attemptedUnsolvedProblems[n]
                r == rawSubmissionsRef[FirstPosition(a.key)]
            IN  a.lastVerdict = r.verdict /\ a.lastTime = r.creationTimeSeconds

\* an unsolved Key with two records of different times
C7_Witness ==
    /\ applied = 1
    /\ \E n \in DOMAIN attemptedUnsolvedProblems :
          LET a == attemptedUnsolvedProblems[n]
          IN  /\ Cardinality(Positions(a.key)) >= 2
              /\ rawSubmissionsRef[FirstPosition(a.key)].creationTimeSeconds
                    # rawSubmissionsRef[LastPosition(a.key)].creationTimeSeconds

TouchedKeys == {KeyOf(rawSubmissionsRef[i]) : i \in DOMAIN rawSubmissionsRef}
OkKeys == {KeyOf(rawSubmissionsRef[i]) : i \in OkPositions}

\* C8: attemptedUnsolved holds exactly the Keys with a record and no OK record,
\* one entry per Key, attempts being the number of Ledger records of the Key;
\* every Key touched by a record is in exactly one of solvedSet and
\* attemptedUnsolved.
C8_AttemptedExact ==
    applied = 1 =>
        /\ AttemptedKeys = TouchedKeys \ OkKeys
        /\ \A m, n \in DOMAIN attemptedUnsolvedProblems :
              attemptedUnsolvedProblems[m].key = attemptedUnsolvedProblems[n].key => m = n
        /\ \A n \in DOMAIN attemptedUnsolvedProblems :
              attemptedUnsolvedProblems[n].attempts =
                  Cardinality(Positions(attemptedUnsolvedProblems[n].key))
        /\ \A k \in TouchedKeys : (k \in userSolvedSet) # (k \in AttemptedKeys)

\* an unsolved Key with two attempts under different raw indexes, next to a
\* solved Key
C8_Witness ==
    /\ applied = 1
    /\ userSolvedSet # {}
    /\ \E n \in DOMAIN attemptedUnsolvedProblems :
          /\ attemptedUnsolvedProblems[n].attempts = 2
          /\ \E i, j \in Positions(attemptedUnsolvedProblems[n].key) :
                rawSubmissionsRef[i].problem.index # rawSubmissionsRef[j].problem.index

(***************************************************************************)
(* Claims on the provider (SpecUser).                                      *)
(***************************************************************************)
\* C2: no two records of the Ledger have the same id, whatever the service
\* answered to the full fetches and the incremental fetches.
C2_LedgerUniqueById ==
    \A i, j \in DOMAIN rawSubmissionsRef :
        rawSubmissionsRef[i].id = rawSubmissionsRef[j].id => i = j

\* C4: in every reachable state no Key is both in solvedSet and a key of
\* attemptedUnsolved.
C4_Disjoint == userSolvedSet \cap AttemptedKeys = {}

\* after an incremental merge: a solved Key, an unsolved Key, and a Ledger that
\* holds an accepted and a failed record
C4_Witness ==
    /\ ru = "resolved"
    /\ userSolvedSet # {}
    /\ AttemptedKeys # {}
    /\ Len(rawSubmissionsRef) >= 2

\* C9: when clearUser returns the Ledger holds no records and solvedSet,
\* attemptedUnsolved and dailyCounts are empty and streak is 0.
C9_ClearUserDiscardsLedger ==
    [][ClearUser => (rawSubmissionsRef' = <<>> /\ DerivedEmpty')]_vars

\* C9 without the Ledger: clearUser empties the DerivedState
C9_ClearUserEmptiesDerived == [][ClearUser => DerivedEmpty']_vars

\* C10: when the full fetch of setHandleAndFetch fails the call rejects and
\* handle and userInfo are null, the persisted handle is absent, the
\* DerivedState is empty and the Ledger holds no records.
C10_RollbackOnFailure ==
    [][\A c \in Callers :
          (sh[c].pc = "awaitUser" /\ sh'[c].pc # "awaitUser") =>
              \/ sh'[c].pc = "resolved" /\ userInfo' # NoUserInfo
              \/ /\ sh'[c].pc = "rejected"
                 /\ handle' = NoHandle
                 /\ userInfo' = NoUserInfo
                 /\ storedHandle' = NoHandle
                 /\ DerivedEmpty'
                 /\ rawSubmissionsRef' = <<>>]_vars

\* C10 without the Ledger: the rollback of everything clearUser resets
C10_RollbackButLedger ==
    [][\A c \in Callers :
          (sh[c].pc = "awaitUser" /\ sh'[c].pc # "awaitUser") =>
              \/ sh'[c].pc = "resolved" /\ userInfo' # NoUserInfo
              \/ /\ sh'[c].pc = "rejected"
                 /\ handle' = NoHandle
                 /\ userInfo' = NoUserInfo
                 /\ storedHandle' = NoHandle
                 /\ DerivedEmpty']_vars

\* C11: while a full fetch for a handle is pending and the user that is loaded
\* is another one, the Ledger holds no records and solvedSet, attemptedUnsolved
\* and dailyCounts are empty and streak is 0.
C11_SwitchDiscards ==
    \A c \in Callers :
        (sh[c].pc = "awaitUser" /\ userInfo # NoUserInfo /\ userInfo.handle # sh[c].h)
            => (rawSubmissionsRef = <<>> /\ DerivedEmpty)

(***************************************************************************)
(* Claims on the catalog load (SpecCatalog).                               *)
(***************************************************************************)
LoadExecuting == load.pc # "idle"
AwaitingProblems == {c \in Callers : sh[c].pc = "awaitProblems"}

\* the steps of the retry loop of the load that is executing: a response
\* arrives (the load ends, or backs off), or the backoff timer fires and the
\* next request of the same load goes out
RetryLoopStep ==
    \/ /\ load.pc = "fetching"
       /\ \/ load' = [load EXCEPT !.pc = "idle", !.loads = 0]
          \/ load' = [load EXCEPT !.pc = "backoff", !.attempt = @ + 1]
    \/ /\ load.pc = "backoff"
       /\ load' = [load EXCEPT !.pc = "fetching", !.requests = @ + 1]

\* C12: at most one catalog load is executing; while it is, no call of
\* fetchProblems changes it or issues a request (requests go out only from the
\* retry loop of that load); a caller that awaits fetchProblems is waiting for
\* the load that is executing and settles in the step in which that load
\* settles, together with every other awaiting caller.
C12_SingleFlightCatalog ==
    /\ [](/\ load.loads <= 1
          /\ LoadExecuting <=> fetchProblemsPromiseRef = "pending"
          /\ AwaitingProblems # {} => LoadExecuting)
    /\ [][/\ (LoadExecuting /\ load' # load) => RetryLoopStep
          /\ \A c \in Callers :
                sh[c].pc = "awaitProblems" =>
                    (sh'[c].pc = "awaitProblems" <=> load'.pc # "idle")]_vars

\* setHandleAndFetch called while the load started by the mount effect is in
\* its second attempt: the call awaits, the load is as it was
C12_Witness ==
    /\ sh["ui"].pc = "awaitProblems"
    /\ load.pc = "fetching"
    /\ load.attempt = 1
    /\ load.requests = 2
    /\ load.loads = 1

\* C13: for a given handle at most one full fetch (a request to
\* /api/user-dashboard) is pending at any time, whoever called setHandleAndFetch.
C13_SingleFlightUser ==
    \A c1, c2 \in Callers :
        (sh[c1].pc = "awaitUser" /\ sh[c2].pc = "awaitUser" /\ sh[c1].h = sh[c2].h)
            => c1 = c2

\* C14: on a cold start, fetchProblems finding a cached catalog written 6 hours
\* ago or earlier issues a request to /api/problems, and finding a non-empty
\* array written less than 6 hours ago exposes the cached list and issues no
\* request.
C14_TTLRespected ==
    [][MountEffect =>
          /\ (cache.kind # "absent" /\ now - cache.ts >= 6 * MsPerHour)
                => (load'.pc = "fetching" /\ load'.requests = 1 /\ problems' = <<>>)
          /\ (cache.kind = "array" /\ Len(cache.items) > 0 /\ now - cache.ts < 6 * MsPerHour)
                => (problems' = cache.items /\ load' = IdleLoad /\ ~loadingProblems')]_vars

\* the cold start found a catalog written exactly 6 hours ago and has issued
\* its request
C14_Witness ==
    /\ mounted
    /\ cache.kind = "array"
    /\ Len(cache.items) > 0
    /\ now - cache.ts = 6 * MsPerHour
    /\ load.pc = "fetching"
    /\ load.requests = 1

\* C15: a catalog load issues at most 3 requests to /api/problems; a response
\* that is a success ends the load, so that no further request follows it; a
\* load whose third request fails ends with errorProblems set, the catalog not
\* marked as fetched and loadingProblems false.
C15_BoundedRetry ==
    /\ [](load.requests <= 3)
    /\ [][/\ (LoadExecuting /\ hasFetchedProblemsRef') =>
                (load'.pc = "idle" /\ load'.requests = load.requests)
          /\ (load.pc = "fetching" /\ load.requests = 3 /\ load' # load) =>
                /\ load'.pc = "idle"
                /\ load'.requests = 3
                /\ ~loadingProblems'
                /\ \/ hasFetchedProblemsRef' /\ errorProblems' = Null
                   \/ /\ ~hasFetchedProblemsRef'
                      /\ errorProblems' = "Failed to fetch problems"
                      /\ problems' = problems
                      /\ cache' = cache]_vars

\* the third request of a load has failed: the load is over, the failure is
\* reported and the catalog is not marked as fetched
C15_Witness ==
    /\ load.pc = "idle"
    /\ load.attempt = 2
    /\ load.requests = 3
    /\ fetchProblemsPromiseRef = Null
    /\ errorProblems = "Failed to fetch problems"
    /\ ~hasFetchedProblemsRef
    /\ ~loadingProblems
    /\ problems = <<>>
    /\ cache.kind = "array" /\ now - cache.ts = 7 * MsPerHour

\* the bodies of /api/problems without a result.problems array, or with an
\* empty one
MalformedCatalogResponses ==
    {r \in CatalogResponses : r.ok /\ (~r.isArray \/ Len(r.problems) = 0)}

\* C16: a response of /api/problems that has no result.problems array, or an
\* empty one, ends the load like a network failure does: errorProblems is set,
\* the catalog is not marked as fetched and the cache entry is left as it was.
C16_MalformedIsFailure ==
    [][\A resp \in MalformedCatalogResponses, stored \in BOOLEAN :
          LoadResponse(resp, stored) =>
              /\ errorProblems' = "Failed to fetch problems"
              /\ ~hasFetchedProblemsRef'
              /\ cache' = cache]_vars

\* C17: when the cold start finds a cache entry that is fresh and fails the
\* validation (unparseable, not an array, or an empty array), fetchProblems
\* goes on to the network fetch, reports no error, and removes the entry from
\* the store.
C17_CorruptCachePurged ==
    [][(/\ MountEffect
        /\ cache.kind # "absent"
        /\ now - cache.ts < 6 * MsPerHour
        /\ (cache.kind # "array" \/ Len(cache.items) = 0)) =>
              /\ load'.pc = "fetching"
              /\ errorProblems' = Null
              /\ cache' = NoEntry]_vars

\* C17 without the removal: a fresh entry that fails the validation is a cache
\* miss and raises no error
C17_CorruptCacheIsMiss ==
    [][(/\ MountEffect
        /\ cache.kind # "absent"
        /\ now - cache.ts < 6 * MsPerHour
        /\ (cache.kind # "array" \/ Len(cache.items) = 0)) =>
              /\ load'.pc = "fetching"
              /\ load'.requests = 1
              /\ errorProblems' = Null
              /\ problems' = <<>>]_vars

(***************************************************************************)
(* Claims on the inputs of the operations (SpecInput).                     *)
(***************************************************************************)
\* the handles of the runs that fail /^[a-zA-Z0-9_-]{3,24}$/: one of length 2,
\* one that holds a control character
RejectedHandles == {h \in AnyHandleInputs : ~HandleFormatOk(h)}

Untouched == UNCHANGED <<handle, rawSubmissionsRef, derived, storedHandle, load>>

\* C18: setHandleAndFetch, fetchAndMergeUserData, refreshUserSubmissions and
\* refreshContestUserSubmissions, called with a handle that fails the format
\* check, issue no request, and neither the call nor anything that follows from
\* it changes handle, the Ledger, the DerivedState or the persisted handle.
C18_InputRejection ==
    [][\A h \in RejectedHandles :
          /\ CallSetHandleAndFetch(h) => (~Pending(sh'["ui"]) /\ Untouched)
          /\ CallRefreshUserSubmissions(h) => (ru' # "await" /\ Untouched)
          /\ (\E contestId \in ContestIdInputs :
                 CallRefreshContestUserSubmissions(contestId, h))
                => (rc' # "await" /\ Untouched)
          /\ CallFetchAndMergeUserData(h) => (fm'.pc # "await" /\ Untouched)
          /\ (fm.h = h /\ \E resp \in InputUserResponses : FetchAndMergeResponse(resp))
                => Untouched]_vars

\* C18 for the three operations that test the handle
C18_InputRejectionWhereChecked ==
    [][\A h \in RejectedHandles :
          /\ CallSetHandleAndFetch(h) => (~Pending(sh'["ui"]) /\ Untouched)
          /\ CallRefreshUserSubmissions(h) => (ru' # "await" /\ Untouched)
          /\ (\E contestId \in ContestIdInputs :
                 CallRefreshContestUserSubmissions(contestId, h))
                => (rc' # "await" /\ Untouched)]_vars

\* C18, the Ledger alone: no response to a request made for a handle that fails
\* the format check changes the Ledger
C18_RejectedHandleKeepsLedger ==
    [][(~HandleFormatOk(fm.h) /\ \E resp \in InputUserResponses : FetchAndMergeResponse(resp))
          => rawSubmissionsRef' = rawSubmissionsRef]_vars

\* C19: setHandleAndFetch and refreshUserSubmissions called with a handle that
\* fails the format check, and refreshContestUserSubmissions called with such a
\* handle or with a contest id that is not an integer of 1..999999, return a
\* promise that rejects.
C19_RejectionSurfaced ==
    [][/\ \A h \in RejectedHandles :
             /\ CallSetHandleAndFetch(h) => sh'["ui"].pc = "rejected"
             /\ CallRefreshUserSubmissions(h) => ru' = "rejected"
       /\ \A contestId \in ContestIdInputs, h \in AnyHandleInputs :
             ((~HandleFormatOk(h) \/ ~ContestIdOk(contestId))
                 /\ CallRefreshContestUserSubmissions(contestId, h))
                => rc' = "rejected"]_vars

\* what the code does with such an input: the promise resolves
C19_RejectionResolves ==
    [][/\ \A h \in RejectedHandles :
             /\ CallSetHandleAndFetch(h) => sh'["ui"].pc = "resolved"
             /\ CallRefreshUserSubmissions(h) => ru' = "resolved"
       /\ \A contestId \in ContestIdInputs, h \in AnyHandleInputs :
             ((~HandleFormatOk(h) \/ ~ContestIdOk(contestId))
                 /\ CallRefreshContestUserSubmissions(contestId, h))
                => rc' = "resolved"]_vars

\* the answers of /api/submissions that are failures: a network error or a
\* status that is not OK
FailedSubmissionsResponses == {r \in SubmissionsResponses : ~r.ok}

\* C20: when the incremental fetch fails (network error or a status that is
\* not OK), refreshUserSubmissions and refreshContestUserSubmissions return a
\* promise that resolves, and the Ledger and the DerivedState are as they were.
C20_RefreshNeverRejects ==
    [][\A resp \in FailedSubmissionsResponses :
          /\ RefreshResponse(resp) =>
                (ru' = "resolved" /\ UNCHANGED <<rawSubmissionsRef, derived>>)
          /\ RefreshContestResponse(resp) =>
                (rc' = "resolved" /\ UNCHANGED <<rawSubmissionsRef, derived>>)]_vars

\* C20 for refreshUserSubmissions alone
C20_RefreshUserNeverRejects ==
    [][\A resp \in FailedSubmissionsResponses :
          RefreshResponse(resp) =>
              (ru' = "resolved" /\ UNCHANGED <<rawSubmissionsRef, derived>>)]_vars

(***************************************************************************)
(* Claims on the life of the Ledger (SpecUser).                            *)
(***************************************************************************)
\* a full fetch of some caller of setHandleAndFetch has just succeeded
FullFetchSucceeded ==
    \E c \in Callers : sh[c].pc = "awaitUser" /\ sh'[c].pc = "resolved"

\* C21: the Ledger goes from empty to populated only in the step of a
\* successful full fetch, and from populated to empty only in a step of
\* clearUser; a response to an incremental refresh never populates an empty
\* Ledger.
C21_LedgerLifecycle ==
    [][/\ (rawSubmissionsRef = <<>> /\ rawSubmissionsRef' # <<>>) => FullFetchSucceeded
       /\ (rawSubmissionsRef # <<>> /\ rawSubmissionsRef' = <<>>) => ClearUser]_vars

(***************************************************************************)
(* SafeStorage                                                             *)
(***************************************************************************)
\* C22: SafeStorage.setItem never throws; a value whose bytes exceed the
\* per-key ceiling makes it return false with the store unchanged; an error
\* raised by the store's own setItem makes it return false with nothing
\* written under the key; and whenever it returns true, getItem of the same
\* key returns the value just written.
C22_SetItemContract ==
    [][LET call == lastSet'
       IN  /\ ~call.threw
           /\ BlobSize(call.value) > call.maxSizeBytes =>
                  (~call.returned /\ store' = store)
           /\ (/\ call.failure # "none"
               /\ ~KeyRejected(call.key)
               /\ BlobSize(call.value) <= call.maxSizeBytes) =>
                  /\ ~call.returned
                  /\ call.key \in DOMAIN store' =>
                         (call.key \in DOMAIN store /\ store'[call.key] = store[call.key])
           /\ call.returned => getItem(store', call.key) = call.value]_vars

\* C22 witness: a value of exactly the default ceiling was written, true was
\* returned, and the store holds two keys
C22_Witness ==
    /\ lastSet.returned
    /\ lastSet.value = AtCeiling
    /\ lastSet.maxSizeBytes = DefaultMaxSizeBytes
    /\ DOMAIN store = {KeyA, KeyB}
    /\ getItem(store, lastSet.key) = AtCeiling

(***************************************************************************)
(* The Ledger and the derived state under the incremental merges           *)
(***************************************************************************)
\* the response of an incremental fetch that carries a list of submissions
MergingResponses == {resp \in SubmissionsResponses : resp.ok /\ resp.hasSubmissions}

\* the records of the response whose id the Ledger does not hold, in the
\* order of the response
NotYetInLedger(resp) ==
    SelectSeq(resp.submissions,
              LAMBDA s : \A i \in DOMAIN rawSubmissionsRef : rawSubmissionsRef[i].id # s.id)

\* C23: after an incremental merge the Ledger is the records of the response
\* whose id was not yet in the Ledger, in the order the service returned
\* them, followed by the Ledger as it was; so the records of a later merge
\* precede those of an earlier one.  Stated of every step of a refresh that
\* changes the Ledger.
C23_MergeOrdering ==
    [][((ru' # ru \/ rc' # rc) /\ rawSubmissionsRef' # rawSubmissionsRef) =>
          \A resp \in MergingResponses :
              (RefreshResponse(resp) \/ RefreshContestResponse(resp)) =>
                  /\ rawSubmissionsRef' = NotYetInLedger(resp) \o rawSubmissionsRef
                  /\ \A i \in 1..Len(rawSubmissionsRef) :
                        rawSubmissionsRef'[Len(NotYetInLedger(resp)) + i]
                            = rawSubmissionsRef[i]]_vars

\* C23 witness: a Ledger of three records, which only a merge can build: the
\* two records of a later response in front of the record of an earlier one
C23_Witness ==
    /\ Len(rawSubmissionsRef) = 3
    /\ rawSubmissionsRef[1].id = 2
    /\ rawSubmissionsRef[2].id = 2
    /\ rawSubmissionsRef[1].problem.index = "B"
    /\ rawSubmissionsRef[2].problem.index = "A"
    /\ rawSubmissionsRef[3].id = 1

\* no call of the provider is waiting for a response
NoOperationInProgress ==
    /\ \A c \in Callers : sh[c].pc \notin {"awaitUser", "awaitProblems"}
    /\ ru # "await"
    /\ rc # "await"
    /\ fm.pc # "await"

\* the exposed solvedSet, attemptedUnsolved and dailyCounts are those of the
\* computation over the given Ledger
DerivedFrom(subs) ==
    /\ userSolvedSet = DerivedOf(subs, now).solved
    /\ attemptedUnsolvedProblems = DerivedOf(subs, now).attemptedUnsolved
    /\ dailySolveCounts = DerivedOf(subs, now).dailyCounts

\* C24: in every state where no operation is in progress, the exposed
\* solvedSet, attemptedUnsolved and dailyCounts are the result of the
\* derived-state computation over the full current Ledger.
C24_DerivedMatchesLedger == NoOperationInProgress => DerivedFrom(rawSubmissionsRef)

\* every change of the Ledger is followed, in the same step, by the
\* computation over the whole new Ledger
C24_RecomputedOnLedgerChange ==
    [][rawSubmissionsRef' # rawSubmissionsRef =>
          LET d == DerivedOf(rawSubmissionsRef', now')
          IN  /\ userSolvedSet' = d.solved
              /\ attemptedUnsolvedProblems' = d.attemptedUnsolved
              /\ dailySolveCounts' = d.dailyCounts]_vars

\* the response of an incremental fetch that brings nothing: a failure, a
\* body without a list, or a list whose ids the Ledger holds already
BringsNothing(resp) ==
    \/ ~resp.ok
    \/ ~resp.hasSubmissions
    \/ \A i \in DOMAIN resp.submissions :
          \E j \in DOMAIN rawSubmissionsRef : rawSubmissionsRef[j].id = resp.submissions[i].id

\* C25: when an incremental fetch fails, or succeeds with only records whose
\* ids are already in the Ledger or with no records, the Ledger, solvedSet,
\* attemptedUnsolved, dailyCounts and streak are all left unchanged: a step
\* of a refresh that changes one of the five is never the step of such a
\* response.
C25_NothingNewNothingChanged ==
    [][((ru' # ru \/ rc' # rc)
            /\ <<rawSubmissionsRef, derived>>' # <<rawSubmissionsRef, derived>>) =>
          \A resp \in SubmissionsResponses :
              BringsNothing(resp) =>
                  ~(RefreshResponse(resp) \/ RefreshContestResponse(resp))]_vars

\* C25 witness: the contest-scoped fetch has failed on a Ledger of two records
\* with a solved problem, and both are still there
C25_Witness ==
    /\ rc = "rejected"
    /\ Len(rawSubmissionsRef) = 2
    /\ userSolvedSet # {}
    /\ userInfo # NoUserInfo

\* the full fetches that succeed
FoundResponses == {resp \in UserResponses : resp.ok /\ resp.found}

GrantedInWindow(identifier, t) ==
    Len(SelectSeq(granted[identifier], LAMBDA time : t - windowMs < time /\ time <= t))

\* C27: for every identifier and every instant t, at most maxRequests of the
\* checks whose timestamp lies in the window (t - windowMs, t] returned true,
\* however the calls of check() interleave; and a check with an invalid
\* identifier returns false and records nothing.
C27_RateLimitBound ==
    /\ [](\A identifier \in ValidIdentifiers, t \in 0..MaxClock :
             GrantedInWindow(identifier, t) <= maxRequests)
    /\ [][\A identifier \in Identifiers \ ValidIdentifiers :
             CallCheck(identifier) =>
                 /\ lastCheck' = [identifier |-> identifier, returned |-> FALSE]
                 /\ UNCHANGED <<requests, microtasks, granted, lastCleanup>>]_vars

\* C27 witness: an identifier was granted maxRequests checks in one window and
\* then refused, having been granted others in an earlier window
C27_Witness ==
    /\ lastCheck = [identifier |-> Ip1, returned |-> FALSE]
    /\ GrantedInWindow(Ip1, serverNow) = maxRequests
    /\ Len(granted[Ip1]) > maxRequests
    /\ Len(microtasks) = MaxPending

(***************************************************************************)
(* The API routes                                                          *)
(***************************************************************************)
\* C28: every route handler consults apiRateLimiter before any other work,
\* and a request that arrives when the limiter holds maxRequests timestamps
\* of the window for its address is answered with status 429 and causes no
\* request to Codeforces.
C28_AllRoutesRateLimited ==
    routeCall.pc = "done" =>
        /\ routeCall.consulted
        /\ routeCall.overLimit => (routeCall.status = 429 /\ routeCall.cfRequests = 0)

\* a request over the limit is served by a route that never asks the limiter
C28_OverLimitDenied ==
    (routeCall.pc = "done" /\ routeCall.overLimit) =>
        (routeCall.status = 429 /\ routeCall.cfRequests = 0)

\* C28 for the routes whose handler begins with the check: problems,
\* submissions and contests
C28_CheckingRoutesDeny ==
    (routeCall.pc = "done" /\ ConsultsLimiter(routeCall.route)) =>
        /\ routeCall.consulted
        /\ routeCall.overLimit => (routeCall.status = 429 /\ routeCall.cfRequests = 0)
        /\ ~routeCall.overLimit => routeCall.status # 429

(***************************************************************************)
(* The in-flight marker of the catalog load                                *)
(***************************************************************************)
\* C29: whenever no catalog load is executing, fetchProblemsPromiseRef is
\* null, whichever way the last fetchProblems ended; so a later call with
\* the catalog not marked as fetched starts a new load.
C29_MarkerClearedWhenIdle ==
    ~LoadExecuting => fetchProblemsPromiseRef = Null

\* C29 on the paths that reach the network: when a load ends, by a good
\* response or by its last failed attempt, the marker is null
C29_MarkerClearedAfterLoad ==
    [][(LoadExecuting /\ ~LoadExecuting') => fetchProblemsPromiseRef' = Null]_vars

\* no finished promise is left in the marker while the catalog is not marked
\* as fetched (from such a state every call of fetchProblems returns that
\* promise at line 124 and none starts a load)
C29_NoStuckMarker ==
    ~(/\ fetchProblemsPromiseRef = "settled"
      /\ ~hasFetchedProblemsRef
      /\ ~LoadExecuting)

(***************************************************************************)
(* The catalog-intersected counts                                          *)
(***************************************************************************)
\* C30: for every catalog and every derived state, solvedCountInProblems +
\* attemptedCountInProblems + notTriedCount is the number of distinct catalog
\* keys, each of the three counts is non-negative, and the clamp to 0 in
\* notTriedCount never takes effect.
C30_CountsPartitionCatalog ==
    /\ solvedCountInProblems + attemptedCountInProblems + notTriedCount
           = Cardinality(problemKeySet)
    /\ solvedCountInProblems >= 0
    /\ attemptedCountInProblems >= 0
    /\ notTriedCount >= 0
    /\ notTriedUnclamped >= 0

\* C30 witness: a solved problem that the catalog lacks, an attempted one that
\* it has, and a catalog problem never tried
C30_Witness ==
    /\ applied = 1
    /\ userSolvedSet # {}
    /\ solvedCountInProblems = 0
    /\ attemptedCountInProblems = 1
    /\ notTriedCount = 1
    /\ Cardinality(problemKeySet) = 2
====
